---- MODULE Spec2Model ----
(***************************************************************************)
(* State-machine model of the audio -> transcript -> section blob ->       *)
(* spreadsheet pipeline: ConversionWorker (src/audio.py) and               *)
(* SummarizationWorker / ClassificationWorker (src/app.py).                *)
(*                                                                         *)
(* Text is modelled as a sequence of characters (one-character strings),   *)
(* so that strip, split, join and replace are computed, not assumed.       *)
(***************************************************************************)
EXTENDS Integers, Sequences, FiniteSets, TLC

(***************************************************************************)
(* Bounds of the model                                                     *)
(***************************************************************************)
\* longest audio, in whole seconds, a transcription run is given
MaxSeconds == 7
\* largest AUDIO_CHUNK_LENGTH_SECONDS a transcription run is configured with
MaxChunkSec == 2
\* most sections a blob is encoded from in the codec runs
MaxSections == 2
\* most blocks a hand-written blob is composed of
MaxBlocks == 2
\* longest list of document types a stage run is given
MaxSelected == 2
\* most handler calls that raise in one stage run, or in the two stage runs of
\* one pipeline run
MaxRaises == 2
\* most check boxes checked in a pipeline run
MaxPipelineSelected == 2
\* most workers started in one session of the window
MaxStarts == 2
\* most chunks of a file converted from the window
MaxGuiChunks == 2
\* longest language code a conversion worker is constructed with
MaxCodeLen == 4

(***************************************************************************)
(* State                                                                   *)
(***************************************************************************)
\* ConversionWorker (src/audio.py)
VARIABLES
    cw_pc,            \* position of ConversionWorker.run
    duration_ms,      \* len(audio)
    chunk_length_sec, \* AUDIO_CHUNK_LENGTH_SECONDS
    has_onnxruntime,  \* _has_onnxruntime
    remove_ok,        \* whether os.remove succeeds on this run's temp files
    num_chunks,       \* num_chunks
    chunk_i,          \* loop variable i
    paragraphs,       \* paragraphs
    temp_files,       \* chunk indices whose temp wav file is on disk
    windows,          \* history: <<start_ms, end_ms>> of every exported chunk
    engine_calls,     \* history: every model.transcribe call and its outcome
    cw_signals        \* history: the signals emitted by the run, in order


\* the blob between the stages (src/app.py)
VARIABLES
    cd_pc,        \* "start", "blob" (the panel holds a blob), "decoded"
    cd_sections,  \* the <<summary_key, section_content>> pairs encoded, if any
    cd_blob,      \* the text in the results panel
    cd_before,    \* the text before the last hand edit
    cd_edit,      \* the last hand edit: its kind and the block it touched
    cd_decoded    \* extracted_texts of the last decode


\* SummarizationWorker (src/app.py)
VARIABLES
    sw_pc,                 \* position of SummarizationWorker.run
    sw_selected,           \* self.selected_doc_types
    sw_available,          \* whether the Summarizer class was imported
    sw_missing,            \* the run methods the client does not have
    sw_filtered,           \* filtered_configs, as indices into SUMMARY_CONFIGS
    sw_idx,                \* entries of filtered_configs processed so far
    sw_sections,           \* sections
    proposed_plan_result,  \* proposed_plan_result (unset: None)
    sw_calls,              \* history: every extraction handler call
    sw_raises,             \* handler calls that raised so far
    sw_signals             \* history: the signals emitted by the run, in order

\* ClassificationWorker (src/app.py)
VARIABLES
    kw_pc,                 \* position of ClassificationWorker.run
    kw_text,               \* self.summarized_text
    kw_selected,           \* self.selected_doc_types
    kw_available,          \* whether the Summarizer class was imported
    kw_missing,            \* the insert methods the client does not have
    extracted_texts,       \* extracted_texts
    kw_filtered,           \* filtered_configs, as indices into SUMMARY_CONFIGS
    kw_idx,                \* entries of filtered_configs processed so far
    insertion_results,     \* insertion_results
    kw_calls,              \* history: every insertion handler call
    kw_raises,             \* handler calls that raised so far
    kw_signals,            \* history: the signals emitted by the run, in order
    results_payload        \* the payload of classification_completed

\* AudioToTextGUI (src/app.py)
VARIABLES
    convert_button,         \* convert_button.isEnabled()
    stop_button,            \* stop_button.isEnabled()
    summarize_button,       \* summarize_button.isEnabled()
    classification_button,  \* classification_button.isEnabled()
    save_button,            \* save_button.isEnabled()
    results_text,           \* results_text.toPlainText()
    read_only,              \* results_text.isReadOnly()
    current_worker,         \* self.current_worker ("None" or "ConversionWorker")
    summarization_worker,   \* self.summarization_worker, as an index into
                            \* stage_threads (0: None)
    classification_worker,  \* self.classification_worker, likewise
    stage_threads,          \* every extraction and classification thread started
    stage_queue,            \* their final signals, queued for the window
    cw_seen,                \* signals of cw_signals the window has handled
    cw_pending,             \* queued signals of earlier conversion workers
    gui_starts              \* workers started so far

\* ConversionWorker.__init__ (src/audio.py)
VARIABLES
    lc_pc,      \* "new" before the constructor has run, "constructed" after
    lang_code,  \* the language argument of the constructor
    language    \* self.language

cw_vars == <<cw_pc, duration_ms, chunk_length_sec, has_onnxruntime, remove_ok,
             num_chunks,
             chunk_i, paragraphs, temp_files, windows, engine_calls, cw_signals>>
cd_vars == <<cd_pc, cd_sections, cd_blob, cd_before, cd_edit, cd_decoded>>
sw_vars == <<sw_pc, sw_selected, sw_available, sw_missing, sw_filtered, sw_idx,
             sw_sections, proposed_plan_result, sw_calls, sw_raises, sw_signals>>
kw_vars == <<kw_pc, kw_text, kw_selected, kw_available, kw_missing, extracted_texts,
             kw_filtered, kw_idx, insertion_results, kw_calls, kw_raises, kw_signals,
             results_payload>>

gui_vars == <<convert_button, stop_button, summarize_button, classification_button,
              save_button, results_text, read_only, current_worker,
              summarization_worker, classification_worker, stage_threads,
              stage_queue, cw_seen, cw_pending, gui_starts>>

lc_vars == <<lc_pc, lang_code, language>>

vars == <<cw_vars, cd_vars, sw_vars, kw_vars, gui_vars, lc_vars>>

\* what a step of one component leaves alone
not_cw == <<cd_vars, sw_vars, kw_vars, gui_vars, lc_vars>>
not_cd == <<cw_vars, sw_vars, kw_vars, gui_vars, lc_vars>>
not_sw == <<cw_vars, cd_vars, kw_vars, gui_vars, lc_vars>>
not_kw == <<cw_vars, cd_vars, sw_vars, gui_vars, lc_vars>>
not_gui == <<cd_vars, sw_vars, kw_vars, lc_vars>>
not_lc == <<cw_vars, cd_vars, sw_vars, kw_vars, gui_vars>>

(***************************************************************************)
(* Text helpers (Python str operations)                                    *)
(***************************************************************************)
NL == "\n"
SP == " "
\* characters str.strip() / str.rstrip() remove
Whitespace == {SP, NL}

Min(a, b) == IF a <= b THEN a ELSE b

RECURSIVE LStrip(_)
LStrip(t) ==
    IF t # <<>> /\ Head(t) \in Whitespace THEN LStrip(Tail(t)) ELSE t

RECURSIVE RStrip(_)
RStrip(t) ==
    IF t # <<>> /\ t[Len(t)] \in Whitespace
    THEN RStrip(SubSeq(t, 1, Len(t) - 1))
    ELSE t

Strip(t) == LStrip(RStrip(t))

\* sep.join(parts)
RECURSIVE Join(_, _)
Join(parts, sep) ==
    IF parts = <<>> THEN <<>>
    ELSE IF Len(parts) = 1 THEN parts[1]
    ELSE parts[1] \o sep \o Join(Tail(parts), sep)

\* text.startswith(p) at position i (1-based)
MatchAt(t, p, i) ==
    /\ i + Len(p) - 1 <= Len(t)
    /\ \A k \in 1..Len(p) : t[i + k - 1] = p[k]

(***************************************************************************)
(* Signals of the worker threads                                           *)
(***************************************************************************)
Sig(s, n, t) == [sig |-> s, num |-> n, text |-> t]
Status == Sig("status", 0, <<>>)
Progress(n) == Sig("progress", n, <<>>)
Failed(msg) == Sig("failed", 0, msg)
Completed(t) == Sig("completed", 0, t)

(***************************************************************************)
(* Catalog (src/app.py, SUMMARY_CONFIGS and DOCUMENT_TYPE_MAPPING)         *)
(*                                                                         *)
(* A summary_key is modelled by a two-character text; like the real keys,  *)
(* the twelve are distinct, hold no newline and no run of dashes, and do   *)
(* not begin or end with whitespace or a colon.                            *)
(***************************************************************************)
Cfg(key, run, ins) == [summary_key |-> key, run_method |-> run, insert_method |-> ins]

SUMMARY_CONFIGS ==
    << Cfg(<<"S", "a">>, "run_sheet1", "insert_sheet1"),
       Cfg(<<"S", "b">>, "run_sheet2", "insert_sheet2"),
       Cfg(<<"S", "c">>, "run_sheet3", "insert_sheet3"),
       Cfg(<<"S", "d">>, "run_sheet4", "insert_sheet4"),
       Cfg(<<"S", "e">>, "run_sheet5", "insert_sheet5"),
       Cfg(<<"S", "g">>, "run_sheet6", "insert_sheet6"),
       Cfg(<<"S", "h">>, "run_sheet7", "insert_sheet7"),
       Cfg(<<"S", "i">>, "run_sheet8", "insert_sheet8"),
       Cfg(<<"F", "m">>, "run_sheet_monitor", "insert_monitor_sheet"),
       Cfg(<<"F", "p">>, "run_sheet_proposedPlan", "insert_proposedPlan_sheet"),
       Cfg(<<"F", "q">>, "run_sheet_plan", "insert_Plan_sheet"),
       Cfg(<<"F", "s">>, "run_sheet_assessment", "insert_assessment_sheet") >>

SUMMARY_KEYS == [i \in 1..Len(SUMMARY_CONFIGS) |-> SUMMARY_CONFIGS[i].summary_key]
SUMMARY_KEY_SET == {SUMMARY_KEYS[i] : i \in 1..Len(SUMMARY_KEYS)}

\* document type -> indices into SUMMARY_CONFIGS (0-based, as in the source)
DocTypes == {"service_meeting", "monitoring", "proposed_plan", "plan", "assessment"}
DOCUMENT_TYPE_MAPPING ==
    [t \in DocTypes |->
        CASE t = "service_meeting" -> 0..7
          [] t = "monitoring" -> {8}
          [] t = "proposed_plan" -> {9}
          [] t = "plan" -> {10}
          [] t = "assessment" -> {11}]

(***************************************************************************)
(* json.loads / json.dumps on the texts of the model                       *)
(*                                                                         *)
(* The alphabet of the model has no digit, no backslash, no bracket and    *)
(* none of the letters u, l, N, I, so a JSON document over it is a string  *)
(* or an object of strings and objects; on such texts the parser below     *)
(* accepts what json.loads accepts and returns the same value.             *)
(***************************************************************************)
QUOTE == "\""
JStr(t) == [kind |-> "str", str |-> t, items |-> {}]
\* an object: the set of its <<key, value>> pairs, one per key
JDict(items) == [kind |-> "dict", str |-> <<>>, items |-> items]
JNone == [kind |-> "none", str |-> <<>>, items |-> {}]

At(t, i) == IF i >= 1 /\ i <= Len(t) THEN t[i] ELSE "EOF"

RECURSIVE SkipWs(_, _)
SkipWs(t, i) == IF At(t, i) \in Whitespace THEN SkipWs(t, i + 1) ELSE i

ParseFail == [ok |-> FALSE, val |-> JNone, next |-> 0]
Parsed(v, n) == [ok |-> TRUE, val |-> v, next |-> n]

\* the index of the closing quote of the string whose first character is at i,
\* or 0 when the string is unterminated or holds a control character
RECURSIVE StringEnd(_, _)
StringEnd(t, i) ==
    IF i > Len(t) \/ t[i] = NL THEN 0
    ELSE IF t[i] = QUOTE THEN i
    ELSE StringEnd(t, i + 1)

ParseString(t, i) ==
    IF At(t, i) # QUOTE THEN ParseFail
    ELSE LET e == StringEnd(t, i + 1)
         IN  IF e = 0 THEN ParseFail
             ELSE Parsed(JStr(SubSeq(t, i + 1, e - 1)), e + 1)

\* dict[key] = value: a later pair replaces an earlier one with the same key
PutItem(items, k, v) == {p \in items : p[1] # k} \cup {<<k, v>>}

RECURSIVE ParseValue(_, _)
RECURSIVE ParseMembers(_, _, _)
ParseMembers(t, i, acc) ==
    LET k == ParseString(t, i)
        c == SkipWs(t, k.next)
        v == ParseValue(t, SkipWs(t, c + 1))
        e == SkipWs(t, v.next)
    IN  IF ~k.ok \/ At(t, c) # ":" THEN ParseFail
        ELSE IF ~v.ok THEN ParseFail
        ELSE IF At(t, e) = "}"
             THEN Parsed(JDict(PutItem(acc, k.val.str, v.val)), e + 1)
        ELSE IF At(t, e) = ","
             THEN ParseMembers(t, SkipWs(t, e + 1), PutItem(acc, k.val.str, v.val))
        ELSE ParseFail

ParseValue(t, i) ==
    IF At(t, i) = QUOTE THEN ParseString(t, i)
    ELSE IF At(t, i) = "{"
         THEN LET j == SkipWs(t, i + 1)
              IN  IF At(t, j) = "}" THEN Parsed(JDict({}), j + 1)
                  ELSE ParseMembers(t, j, {})
    ELSE ParseFail

\* json.loads(text): ParseFail stands for JSONDecodeError
JsonLoads(t) ==
    LET v == ParseValue(t, SkipWs(t, 1))
    IN  IF v.ok /\ SkipWs(t, v.next) = Len(t) + 1 THEN v ELSE ParseFail

ERROR_KEY == <<"e", "r", "r", "o", "r">>
CONTENT_KEY == <<"c", "o", "n", "t", "e", "n", "t">>

\* an error written as its bare message
DumpsErrorAsText(msg) == msg

\* json.dumps({"error": message}, ensure_ascii=False)
DumpsError(msg) ==
    <<"{", QUOTE>> \o ERROR_KEY \o <<QUOTE, ":", SP, QUOTE>> \o msg \o <<QUOTE, "}">>

(***************************************************************************)
(* SectionCodec: the blob written by SummarizationWorker.run and read by   *)
(* ClassificationWorker._extract_separate_texts                            *)
(***************************************************************************)
SeparatorLen == 32
Separator == [k \in 1..SeparatorLen |-> "-"]

\* text.split(sep)
RECURSIVE FindFrom(_, _, _)
FindFrom(t, sep, i) ==
    IF i + Len(sep) - 1 > Len(t) THEN 0
    ELSE IF MatchAt(t, sep, i) THEN i
    ELSE FindFrom(t, sep, i + 1)

RECURSIVE Split(_, _)
Split(t, sep) ==
    LET i == FindFrom(t, sep, 1)
    IN  IF i = 0 THEN <<t>>
        ELSE <<SubSeq(t, 1, i - 1)>> \o Split(SubSeq(t, i + Len(sep), Len(t)), sep)

\* f"{cfg['summary_key']}:\n{section_content}"
SectionText(key, content) == key \o <<":", NL>> \o content

\* "\n--------------------------------\n".join(sections)
JoinSections(sections) == Join(sections, <<NL>> \o Separator \o <<NL>>)

\* [line.rstrip() for line in section.split("\n") if line.strip()]
BlockLines(section) ==
    LET raw == Split(section, <<NL>>)
        kept == SelectSeq(raw, LAMBDA line : Strip(line) # <<>>)
    IN  [k \in 1..Len(kept) |-> RStrip(kept[k])]

\* a decoder that does not take the colon off the header
HeaderKeyKeepsColon(header_line) == Strip(header_line)

\* header_line[:-1].strip() if header_line.endswith(":") else header_line.strip()
HeaderKey(header_line) ==
    IF header_line # <<>> /\ header_line[Len(header_line)] = ":"
    THEN Strip(SubSeq(header_line, 1, Len(header_line) - 1))
    ELSE Strip(header_line)

\* "\n".join(lines[1:]).strip()
BlockContent(lines) == Strip(Join(Tail(lines), <<NL>>))

\* a decoder without the "if not content" case
ParsedDataNoEmptyCase(content) ==
    LET v == JsonLoads(content)
    IN  IF v.ok THEN v.val ELSE JDict({<<CONTENT_KEY, JStr(content)>>})

\* {} / json.loads(content) / {"content": content}
ParsedData(content) ==
    IF content = <<>> THEN JDict({})
    ELSE LET v == JsonLoads(content)
         IN  IF v.ok THEN v.val
             ELSE JDict({<<CONTENT_KEY, JStr(content)>>})

\* extracted_texts[header_key] = parsed_data
Put(m, k, v) == [x \in (DOMAIN m) \cup {k} |-> IF x = k THEN v ELSE m[x]]

EmptyMap == [x \in {} |-> JNone]

\* a loop that stops at the first block whose key is unknown
RECURSIVE ExtractBlocksStopAtUnknown(_, _)
ExtractBlocksStopAtUnknown(sections, acc) ==
    IF sections = <<>> THEN acc
    ELSE LET lines == BlockLines(Head(sections))
         IN  IF lines = <<>> THEN ExtractBlocksStopAtUnknown(Tail(sections), acc)
             ELSE IF HeaderKey(lines[1]) \notin SUMMARY_KEY_SET THEN acc
             ELSE ExtractBlocksStopAtUnknown(Tail(sections),
                                             Put(acc, HeaderKey(lines[1]),
                                                 ParsedData(BlockContent(lines))))

\* a loop that keeps the first block of a key and ignores the later ones
RECURSIVE ExtractBlocksKeepFirst(_, _)
ExtractBlocksKeepFirst(sections, acc) ==
    IF sections = <<>> THEN acc
    ELSE LET lines == BlockLines(Head(sections))
         IN  IF lines = <<>> THEN ExtractBlocksKeepFirst(Tail(sections), acc)
             ELSE IF HeaderKey(lines[1]) \notin SUMMARY_KEY_SET
                     \/ HeaderKey(lines[1]) \in DOMAIN acc
                  THEN ExtractBlocksKeepFirst(Tail(sections), acc)
             ELSE ExtractBlocksKeepFirst(Tail(sections),
                                         Put(acc, HeaderKey(lines[1]),
                                             ParsedData(BlockContent(lines))))

\* the loop of _extract_separate_texts over the split sections
RECURSIVE ExtractBlocks(_, _)
ExtractBlocks(sections, acc) ==
    IF sections = <<>> THEN acc
    ELSE LET lines == BlockLines(Head(sections))
         IN  IF lines = <<>> THEN ExtractBlocks(Tail(sections), acc)
             ELSE IF HeaderKey(lines[1]) \notin SUMMARY_KEY_SET
                  THEN ExtractBlocks(Tail(sections), acc)
             ELSE ExtractBlocks(Tail(sections),
                                Put(acc, HeaderKey(lines[1]),
                                    ParsedData(BlockContent(lines))))

\* ClassificationWorker._extract_separate_texts(summary_text)
ExtractSeparateTexts(summary_text) ==
    IF Strip(summary_text) = <<>> THEN EmptyMap
    ELSE ExtractBlocks(Split(summary_text, Separator), EmptyMap)

(***************************************************************************)
(* The blob between the stages: written by an extraction run, shown in the *)
(* results panel, edited there by hand, read back by a classification run  *)
(***************************************************************************)
DASHES == Separator
JSON_AB == <<"{", QUOTE, "a", QUOTE, ":", SP, QUOTE, "b", QUOTE, "}">>
JSON_DASHES == <<"{", QUOTE, "a", QUOTE, ":", SP, QUOTE>> \o DASHES \o <<QUOTE, "}">>
BOOM == <<"b", "o", "o", "m">>

\* section contents an extraction handler may return (already stripped)
Contents ==
    { JSON_AB,
      <<>>,
      <<"x", SP, "y">>,
      <<"x", NL, NL, "y">>,
      JSON_DASHES,
      DumpsError(BOOM) }

\* the keys the codec runs encode sections for
CodecKeys == {<<"S", "a">>, <<"F", "p">>, <<"F", "q">>}

SectionLists ==
    UNION { { secs \in [1..n -> CodecKeys \X Contents] :
                \A i, j \in 1..n : i # j => secs[i][1] # secs[j][1] }
            : n \in 1..MaxSections }

\* blocks a user may type between separator lines
BlockSamples ==
    { <<"S", "a", ":", NL>> \o JSON_AB,
      <<"S", "a", NL, "x">>,
      <<"z", "z", ":", NL, "x">>,
      <<"S", "a", ":", ":", NL, "x">>,
      <<":", NL, "F", "p", NL, "{", "}">>,
      <<SP, NL>>,
      <<NL, "F", "p", SP, ":", NL, "x", SP, NL, NL, SP, "y", SP, NL>>,
      <<NL, "F", "p", ":", SP, NL, "{", NL, NL, QUOTE, "a", QUOTE, ":", QUOTE, QUOTE, SP, NL, "}">> }

BlockLists == UNION { [1..n -> BlockSamples] : n \in 1..MaxBlocks }

NoEdit == [kind |-> "none", block |-> 0]

CD_Init ==
    /\ cd_pc = "start"
    /\ cd_sections = <<>>
    /\ cd_blob = <<>>
    /\ cd_before = <<>>
    /\ cd_edit = NoEdit
    /\ cd_decoded = EmptyMap

CD_Idle ==
    /\ cd_pc = "idle"
    /\ cd_sections = <<>>
    /\ cd_blob = <<>>
    /\ cd_before = <<>>
    /\ cd_edit = NoEdit
    /\ cd_decoded = EmptyMap

\* the blob an extraction run builds from its sections
EncodeSections(secs) ==
    JoinSections([k \in 1..Len(secs) |-> SectionText(secs[k][1], secs[k][2])])

CD_Encode ==
    /\ cd_pc = "start"
    /\ \E secs \in SectionLists :
         /\ cd_sections' = secs
         /\ cd_blob' = EncodeSections(secs)
    /\ cd_pc' = "blob"
    /\ UNCHANGED <<cd_before, cd_edit, cd_decoded>>
    /\ UNCHANGED not_cd

\* the user types a blob into the results panel
CD_Compose ==
    /\ cd_pc = "start"
    /\ \E blocks \in BlockLists : cd_blob' = Join(blocks, Separator)
    /\ cd_pc' = "blob"
    /\ UNCHANGED <<cd_sections, cd_before, cd_edit, cd_decoded>>
    /\ UNCHANGED not_cd

\* the first line of a block that is not blank (0: none)
RECURSIVE FirstNonBlank(_, _)
FirstNonBlank(lines, k) ==
    IF k > Len(lines) THEN 0
    ELSE IF Strip(lines[k]) # <<>> THEN k
    ELSE FirstNonBlank(lines, k + 1)

InsertAt(seq, p, x) == SubSeq(seq, 1, p - 1) \o <<x>> \o SubSeq(seq, p, Len(seq))

\* the blob with line h of block b replaced
WithLine(blob, b, h, line) ==
    LET blocks == Split(blob, Separator)
        lines == Split(blocks[b], <<NL>>)
    IN  Join([blocks EXCEPT ![b] = Join([lines EXCEPT ![h] = line], <<NL>>)],
             Separator)

Edited(kind, b, text) ==
    /\ cd_before' = cd_blob
    /\ cd_blob' = text
    /\ cd_edit' = [kind |-> kind, block |-> b]
    /\ UNCHANGED <<cd_pc, cd_sections, cd_decoded>>

\* hand edit: a blank or whitespace-only block is inserted between separators
CD_InsertBlankBlock ==
    /\ cd_pc = "blob"
    /\ cd_edit = NoEdit
    /\ LET blocks == Split(cd_blob, Separator)
       IN  \E p \in 1..(Len(blocks) + 1), ws \in {<<NL>>, <<NL, SP, NL>>} :
             Edited("blank_block", p, Join(InsertAt(blocks, p, ws), Separator))
    /\ UNCHANGED not_cd

\* hand edit: the trailing colon of a block's header line is removed
CD_RemoveColon ==
    /\ cd_pc = "blob"
    /\ cd_edit = NoEdit
    /\ LET blocks == Split(cd_blob, Separator)
       IN  \E b \in 1..Len(blocks) :
             LET lines == Split(blocks[b], <<NL>>)
                 h == FirstNonBlank(lines, 1)
                 r == RStrip(lines[h])
             IN  /\ h # 0
                 /\ r[Len(r)] = ":"
                 /\ Edited("colon", b,
                           WithLine(cd_blob, b, h,
                                    SubSeq(r, 1, Len(r) - 1)
                                    \o SubSeq(lines[h], Len(r) + 1, Len(lines[h]))))
    /\ UNCHANGED not_cd

\* hand edit: whitespace is added before and/or after a block's header line
CD_PadHeader ==
    /\ cd_pc = "blob"
    /\ cd_edit = NoEdit
    /\ LET blocks == Split(cd_blob, Separator)
       IN  \E b \in 1..Len(blocks), lead \in {<<>>, <<SP>>}, trail \in {<<>>, <<SP>>} :
             LET lines == Split(blocks[b], <<NL>>)
                 h == FirstNonBlank(lines, 1)
             IN  /\ h # 0
                 /\ lead \o trail # <<>>
                 /\ Edited("pad_header", b,
                           WithLine(cd_blob, b, h, lead \o lines[h] \o trail))
    /\ UNCHANGED not_cd

\* hand edit: a blank line is added before or after a block
CD_BlankLines ==
    /\ cd_pc = "blob"
    /\ cd_edit = NoEdit
    /\ LET blocks == Split(cd_blob, Separator)
       IN  \E b \in 1..Len(blocks), before \in BOOLEAN :
             Edited("blank_lines", b,
                    Join([blocks EXCEPT ![b] =
                              IF before THEN <<SP, NL>> \o blocks[b]
                              ELSE blocks[b] \o <<NL, SP>>],
                         Separator))
    /\ UNCHANGED not_cd

\* a classification run reads the panel and decodes it
CD_Decode ==
    /\ cd_pc = "blob"
    /\ cd_decoded' = ExtractSeparateTexts(cd_blob)
    /\ cd_pc' = "decoded"
    /\ UNCHANGED <<cd_sections, cd_blob, cd_before, cd_edit>>
    /\ UNCHANGED not_cd

CD_Next ==
    \/ CD_Encode
    \/ CD_Compose
    \/ CD_InsertBlankBlock
    \/ CD_RemoveColon
    \/ CD_PadHeader
    \/ CD_BlankLines
    \/ CD_Decode

(***************************************************************************)
(* ConversionWorker (src/audio.py)                                         *)
(***************************************************************************)
\* the marker the worker puts in front of a streamed transcript (U+1F4DD)
MEMO == "M"
\* the marker of the "split into N chunks" notice (U+1F4E6)
PACKAGE == "P"


\* durations offered to a run: every whole second up to MaxSeconds, and one
\* millisecond past and one millisecond short of it
Durations ==
    {d \in 0..(MaxSeconds * 1000) : d % 1000 \in {0, 1, 999}}

\* what the speech-recognition engine may return for a chunk: the texts of
\* its segments
SegmentLists ==
    { << <<SP, "a">>, <<SP, "b", SP>> >>,
      << >> }

\* math.ceil(a / b) for b # 0
CeilDiv(a, b) ==
    IF b > 0 THEN (a + b - 1) \div b
    ELSE -(a \div (-b))

ChunkLengthMs == chunk_length_sec * 1000

NumChunks(D, C) == CeilDiv(D, C)

ChunkStart(i, C) == i * C

ChunkEndUnclamped(i, C, D) == (i + 1) * C
ChunkEnd(i, C, D) == Min((i + 1) * C, D)

\* "".join(chunk_text_parts).strip()
ChunkText(parts) == Strip(Join(parts, <<>>))

\* "\n\n".join(paragraphs)
JoinParagraphsOneNewline(ps) == Join(ps, <<NL>>)
JoinParagraphs(ps) == Join(ps, <<NL, NL>>)

\* the payload of the partial-result event after a chunk
PartialPayloadDelta(ps) == <<MEMO, SP>> \o ps[Len(ps)]
PartialPayload(ps) == <<MEMO, SP>> \o JoinParagraphs(ps)

\* int(((i + 1) / num_chunks) * 100) followed by int((percent / 100) * 100),
\* both in IEEE double arithmetic: percent / 100 * 100 falls just short of
\* percent for 29, 57 and 58
LossyPercents == {29, 57, 58}
Percent(i, n) == ((i + 1) * 100) \div n
ProgressValue(percent) ==
    IF percent \in LossyPercents THEN percent - 1 ELSE percent

CW_Init ==
    /\ cw_pc = "start"
    /\ duration_ms \in Durations
    /\ chunk_length_sec \in -1..MaxChunkSec
    /\ has_onnxruntime \in BOOLEAN
    /\ remove_ok \in BOOLEAN
    /\ num_chunks = 0
    /\ chunk_i = 0
    /\ paragraphs = <<>>
    /\ temp_files = {}
    /\ windows = <<>>
    /\ engine_calls = <<>>
    /\ cw_signals = <<>>

CW_Idle ==
    /\ cw_pc = "idle"
    /\ duration_ms = 0
    /\ chunk_length_sec = 0
    /\ has_onnxruntime = FALSE
    /\ remove_ok = TRUE
    /\ num_chunks = 0
    /\ chunk_i = 0
    /\ paragraphs = <<>>
    /\ temp_files = {}
    /\ windows = <<>>
    /\ engine_calls = <<>>
    /\ cw_signals = <<>>

\* the file is missing, the model is None, the audio cannot be decoded or the
\* environment value is not an integer
CW_PrepareFails ==
    /\ cw_pc = "start"
    /\ cw_signals' = cw_signals \o <<Status, Progress(0), Failed(<<"p">>)>>
    /\ cw_pc' = "failed"
    /\ UNCHANGED <<duration_ms, chunk_length_sec, has_onnxruntime, remove_ok, num_chunks,
                   chunk_i, paragraphs, temp_files, windows, engine_calls>>
    /\ UNCHANGED not_cw

CW_Prepare ==
    /\ cw_pc = "start"
    /\ IF ChunkLengthMs = 0
       THEN \* ZeroDivisionError
            /\ cw_signals' = cw_signals \o
                   <<Status, Progress(0), Status, Progress(0), Failed(<<"z">>)>>
            /\ cw_pc' = "failed"
            /\ UNCHANGED num_chunks
       ELSE /\ num_chunks' = NumChunks(duration_ms, ChunkLengthMs)
            /\ cw_signals' = cw_signals \o
                   <<Status, Progress(0), Status, Progress(0), Status,
                     Sig("partial", 0, <<PACKAGE>>), Progress(0)>>
            /\ cw_pc' = "loop"
    /\ chunk_i' = 0
    /\ paragraphs' = <<>>
    /\ UNCHANGED <<duration_ms, chunk_length_sec, has_onnxruntime, remove_ok,
                   temp_files, windows, engine_calls>>
    /\ UNCHANGED not_cw

\* audio[start_ms:end_ms] and chunk.export(chunk_path)
CW_Export ==
    /\ cw_pc = "loop"
    /\ chunk_i < num_chunks
    /\ windows' = Append(windows,
                         <<ChunkStart(chunk_i, ChunkLengthMs),
                           ChunkEnd(chunk_i, ChunkLengthMs, duration_ms)>>)
    /\ temp_files' = temp_files \cup {chunk_i}
    /\ cw_signals' = Append(cw_signals, Status)
    /\ cw_pc' = "exported"
    /\ UNCHANGED <<duration_ms, chunk_length_sec, has_onnxruntime, remove_ok, num_chunks,
                   chunk_i, paragraphs, engine_calls>>
    /\ UNCHANGED not_cw

\* a run that skips a chunk the engine failed on, instead of aborting
CW_TranscribeFailsSkips ==
    /\ cw_pc = "exported"
    /\ engine_calls' = Append(engine_calls,
                              [chunk |-> chunk_i, ok |-> FALSE, parts |-> <<>>])
    /\ cw_signals' = Append(cw_signals, Failed(<<"e">>))
    /\ chunk_i' = chunk_i + 1
    /\ cw_pc' = "loop"
    /\ UNCHANGED <<duration_ms, chunk_length_sec, has_onnxruntime, remove_ok, num_chunks,
                   paragraphs, temp_files, windows>>
    /\ UNCHANGED not_cw

\* model.transcribe raises (or the segment generator does)
CW_TranscribeFails ==
    /\ cw_pc = "exported"
    /\ engine_calls' = Append(engine_calls,
                              [chunk |-> chunk_i, ok |-> FALSE, parts |-> <<>>])
    /\ cw_signals' = Append(cw_signals, Failed(<<"e">>))
    /\ cw_pc' = "failed"
    /\ UNCHANGED <<duration_ms, chunk_length_sec, has_onnxruntime, remove_ok, num_chunks,
                   chunk_i, paragraphs, temp_files, windows>>
    /\ UNCHANGED not_cw

AfterChunkSignals(ps, i, n) ==
    (IF ~has_onnxruntime /\ i = 0 THEN <<Status>> ELSE <<>>)
    \o <<Sig("partial", 0, PartialPayload(ps)),
         Status,
         Progress(ProgressValue(Percent(i, n)))>>

\* the rest of one loop iteration: transcribe, append, emit, remove the file
CW_Transcribe ==
    /\ cw_pc = "exported"
    /\ \E parts \in SegmentLists :
         /\ engine_calls' = Append(engine_calls,
                                   [chunk |-> chunk_i, ok |-> TRUE, parts |-> parts])
         /\ paragraphs' = Append(paragraphs, ChunkText(parts))
         /\ cw_signals' = cw_signals \o
                AfterChunkSignals(paragraphs', chunk_i, num_chunks)
         /\ temp_files' = IF remove_ok THEN temp_files \ {chunk_i} ELSE temp_files
    /\ chunk_i' = chunk_i + 1
    /\ cw_pc' = "loop"
    /\ UNCHANGED <<duration_ms, chunk_length_sec, has_onnxruntime, remove_ok, num_chunks,
                   windows>>
    /\ UNCHANGED not_cw

CW_Finish ==
    /\ cw_pc = "loop"
    /\ chunk_i >= num_chunks
    /\ cw_signals' = cw_signals \o
           <<Status, Progress(100), Completed(JoinParagraphs(paragraphs))>>
    /\ cw_pc' = "done"
    /\ UNCHANGED <<duration_ms, chunk_length_sec, has_onnxruntime, remove_ok, num_chunks,
                   chunk_i, paragraphs, temp_files, windows, engine_calls>>
    /\ UNCHANGED not_cw

CW_Next ==
    \/ CW_PrepareFails
    \/ CW_Prepare
    \/ CW_Export
    \/ CW_TranscribeFails
    \/ CW_Transcribe
    \/ CW_Finish

(***************************************************************************)
(* SummarizationWorker (src/app.py): Stage 1, extraction                   *)
(***************************************************************************)
\* an identifier that is no key of DOCUMENT_TYPE_MAPPING
UNKNOWN_TYPE == "unknown"

\* the lists of document types a run may be constructed with
Selections ==
    UNION { [1..n -> DocTypes \cup {UNKNOWN_TYPE}] : n \in 0..MaxSelected }

\* a resolution that takes an unknown document type for the first entry
SelectedIndicesUnknownAsFirst(selected) ==
    UNION { IF selected[k] \in DocTypes THEN DOCUMENT_TYPE_MAPPING[selected[k]] ELSE {0}
            : k \in 1..Len(selected) }

\* selected_indices: the union of the mapped indices of the known types
SelectedIndices(selected) ==
    UNION { IF selected[k] \in DocTypes THEN DOCUMENT_TYPE_MAPPING[selected[k]] ELSE {}
            : k \in 1..Len(selected) }

\* the selected entries in descending catalog order
FilteredConfigsDescending(indices) ==
    LET up == SelectSeq([i \in 1..Len(SUMMARY_CONFIGS) |-> i - 1], LAMBDA i : i \in indices)
    IN  [k \in 1..Len(up) |-> up[Len(up) + 1 - k]]

\* [cfg for idx, cfg in enumerate(SUMMARY_CONFIGS) if idx in selected_indices]
FilteredConfigs(indices) ==
    SelectSeq([i \in 1..Len(SUMMARY_CONFIGS) |-> i - 1], LAMBDA i : i \in indices)

ConfigAt(i) == SUMMARY_CONFIGS[i + 1]

RunMethods == {SUMMARY_CONFIGS[i].run_method : i \in 1..Len(SUMMARY_CONFIGS)}
InsertMethods == {SUMMARY_CONFIGS[i].insert_method : i \in 1..Len(SUMMARY_CONFIGS)}

\* the sets of handler methods a client may lack
MissingSets ==
    { {},
      {"run_sheet_proposedPlan"},
      {"run_sheet_proposedPlan", "run_sheet_plan"},
      {"run_sheet2", "insert_sheet2"} }

\* f"Method {name} not found"
NotFound(name) ==
    <<"M", "e", "t", "h", "o", "d", SP, name, SP, "n", "o", "t", SP, "f", "o", "u", "n", "d">>

BAD == <<"b", "a", "d">>

\* the field-name prefixes of the alias rewrite; K G A W D stand for the
\* characters of "計画案::", "計画::", "計画案週::" and "週間計画::"
PROPOSAL_PREFIX == <<QUOTE, "K", "G", "A", ":", ":">>
PLAN_PREFIX == <<QUOTE, "K", "G", ":", ":">>
PROPOSAL_WEEK_PREFIX == <<QUOTE, "K", "G", "A", "W", ":", ":">>
PLAN_WEEK_PREFIX == <<QUOTE, "W", "D", "K", "G", ":", ":">>

\* text.replace(old, new)
RECURSIVE Replace(_, _, _)
Replace(t, old, new) ==
    LET i == FindFrom(t, old, 1)
    IN  IF i = 0 THEN t
        ELSE SubSeq(t, 1, i - 1) \o new
             \o Replace(SubSeq(t, i + Len(old), Len(t)), old, new)

\* .replace('"計画案::', '"計画::').replace('"計画案週::', '"週間計画::')
RewritePrefixes(t) ==
    Replace(Replace(t, PROPOSAL_PREFIX, PLAN_PREFIX),
            PROPOSAL_WEEK_PREFIX, PLAN_WEEK_PREFIX)

\* what an extraction handler other than run_sheet_proposedPlan returns: a
\* JSON object naming the handler, with whitespace around it
HandlerResult(method) ==
    <<SP, "{", QUOTE, "a", QUOTE, ":", SP, QUOTE, method, QUOTE, "}", NL>>

\* what run_sheet_proposedPlan may return
ProposedPlanResults ==
    { <<"{", QUOTE, "K", "G", "A", ":", ":", "n", QUOTE, ":", SP, QUOTE, "x", QUOTE, ",", SP,
        QUOTE, "K", "G", "A", "W", ":", ":", "m", QUOTE, ":", SP, QUOTE, "y", QUOTE, "}">>,
      <<"{", QUOTE, "o", QUOTE, ":", SP, QUOTE, "K", "G", "A", ":", ":", "z", QUOTE, "}", SP>> }

ResultsOf(method) ==
    IF method = "run_sheet_proposedPlan" THEN ProposedPlanResults
    ELSE {HandlerResult(method)}

\* str(exc) of a handler that raises
RaiseMessages(method) ==
    IF method = "run_sheet_proposedPlan" THEN {BOOM, BAD} ELSE {BOOM}

None == [set |-> FALSE, text |-> <<>>]
Some(t) == [set |-> TRUE, text |-> t]

\* a progress that starts again from nothing
ExtractionProgressFromZero(idx, total) == Min((idx * 75) \div total, 95)

\* 15 + int((idx / total_sections) * 75), capped at 95
ExtractionProgress(idx, total) == Min(15 + (idx * 75) \div total, 95)

\* what the name proposed_plan_result may be bound to before the run binds
\* it: nothing, or the result of an earlier run
EarlierCaches == {None, Some(<<"s", "t", "a", "l", "e">>)}

SW_Init ==
    /\ sw_pc = "start"
    /\ sw_selected \in Selections
    /\ sw_available \in BOOLEAN
    /\ sw_missing \in MissingSets
    /\ sw_filtered = <<>>
    /\ sw_idx = 0
    /\ sw_sections = <<>>
    /\ proposed_plan_result \in EarlierCaches
    /\ sw_calls = <<>>
    /\ sw_raises = 0
    /\ sw_signals = <<>>

SW_Idle ==
    /\ sw_pc = "idle"
    /\ sw_selected = <<>>
    /\ sw_available = FALSE
    /\ sw_missing = {}
    /\ sw_filtered = <<>>
    /\ sw_idx = 0
    /\ sw_sections = <<>>
    /\ proposed_plan_result = None
    /\ sw_calls = <<>>
    /\ sw_raises = 0
    /\ sw_signals = <<>>

\* the failure raised before the client is constructed, if any
StartError(available, selected) ==
    IF ~available THEN <<"no_summarizer">>
    ELSE IF selected = <<>> THEN <<"no_selection">>
    ELSE IF SelectedIndices(selected) = {} THEN <<"no_config">>
    ELSE <<>>

\* Summarizer is unavailable or the selection resolves to nothing
SW_StartFails ==
    /\ sw_pc = "start"
    /\ StartError(sw_available, sw_selected) # <<>>
    /\ sw_signals' = sw_signals \o
           <<Status, Progress(5), Failed(StartError(sw_available, sw_selected))>>
    /\ sw_pc' = "failed"
    /\ UNCHANGED <<sw_selected, sw_available, sw_missing, sw_filtered, sw_idx,
                   sw_sections, proposed_plan_result, sw_calls, sw_raises>>
    /\ UNCHANGED not_sw

\* Summarizer(api_key, text, language) raises
SW_ClientFails ==
    /\ sw_pc = "start"
    /\ StartError(sw_available, sw_selected) = <<>>
    /\ sw_signals' = sw_signals \o
           <<Status, Progress(5), Failed(<<"client_error">>)>>
    /\ sw_pc' = "failed"
    /\ UNCHANGED <<sw_selected, sw_available, sw_missing, sw_filtered, sw_idx,
                   sw_sections, proposed_plan_result, sw_calls, sw_raises>>
    /\ UNCHANGED not_sw

\* a start that binds no fresh cache
SW_StartKeepsCache ==
    /\ sw_pc = "start"
    /\ StartError(sw_available, sw_selected) = <<>>
    /\ sw_filtered' = FilteredConfigs(SelectedIndices(sw_selected))
    /\ sw_signals' = sw_signals \o
           <<Status, Progress(5), Progress(5), Status, Progress(10), Status,
             Progress(15)>>
    /\ sw_sections' = <<>>
    /\ sw_idx' = 0
    /\ sw_pc' = "loop"
    /\ UNCHANGED <<sw_selected, sw_available, sw_missing, sw_calls, sw_raises,
                   proposed_plan_result>>
    /\ UNCHANGED not_sw

SW_Start ==
    /\ sw_pc = "start"
    /\ StartError(sw_available, sw_selected) = <<>>
    /\ sw_filtered' = FilteredConfigs(SelectedIndices(sw_selected))
    /\ sw_signals' = sw_signals \o
           <<Status, Progress(5), Progress(5), Status, Progress(10), Status,
             Progress(15)>>
    /\ sw_sections' = <<>>
    /\ proposed_plan_result' = None
    /\ sw_idx' = 0
    /\ sw_pc' = "loop"
    /\ UNCHANGED <<sw_selected, sw_available, sw_missing, sw_calls, sw_raises>>
    /\ UNCHANGED not_sw

\* a handler call made while entry number sw_idx + 1 is processed
Call(method, ok, text) ==
    [entry |-> sw_idx + 1, method |-> method, ok |-> ok, text |-> text]

\* the end of one loop iteration: the section is appended, progress emitted
EntryDone(content, calls, raised, cache, status) ==
    /\ sw_sections' = Append(sw_sections,
                          SectionText(ConfigAt(sw_filtered[sw_idx + 1]).summary_key,
                                      content))
    /\ sw_calls' = sw_calls \o calls
    /\ sw_raises' = sw_raises + raised
    /\ proposed_plan_result' = cache
    /\ sw_signals' = sw_signals \o status
           \o <<Progress(ExtractionProgress(sw_idx + 1, Len(sw_filtered)))>>
    /\ sw_idx' = sw_idx + 1
    /\ UNCHANGED <<sw_pc, sw_selected, sw_available, sw_missing, sw_filtered>>
    /\ UNCHANGED not_sw

\* an iteration whose handler raises aborts the run
EntryRaisesAborts(method, cache) ==
    /\ sw_raises < MaxRaises
    /\ \E msg \in RaiseMessages(method) :
         /\ sw_calls' = Append(sw_calls, Call(method, FALSE, msg))
         /\ sw_signals' = sw_signals \o <<Status, Failed(msg)>>
    /\ sw_raises' = sw_raises + 1
    /\ sw_pc' = "failed"
    /\ UNCHANGED <<sw_selected, sw_available, sw_missing, sw_filtered, sw_idx,
                   sw_sections, proposed_plan_result>>
    /\ UNCHANGED not_sw

\* an iteration whose handler raises: the exception becomes the section
EntryRaises(method, cache) ==
    /\ sw_raises < MaxRaises
    /\ \E msg \in RaiseMessages(method) :
         EntryDone(DumpsError(msg), <<Call(method, FALSE, msg)>>, 1, cache,
                   <<Status, Status>>)

\* an entry whose method the client lacks
EntryMissing(method) ==
    EntryDone(DumpsError(NotFound(method)), <<>>, 0, proposed_plan_result, <<Status>>)

\* an entry other than run_sheet_plan (lines 296-310)
SW_Entry ==
    /\ sw_pc = "loop"
    /\ sw_idx < Len(sw_filtered)
    /\ LET method == ConfigAt(sw_filtered[sw_idx + 1]).run_method
       IN  /\ method # "run_sheet_plan"
           /\ \/ /\ method \in sw_missing
                 /\ EntryMissing(method)
              \/ /\ method \notin sw_missing
                 /\ \E result \in ResultsOf(method) :
                      EntryDone(Strip(result), <<Call(method, TRUE, result)>>, 0,
                                IF method = "run_sheet_proposedPlan"
                                THEN Some(Strip(result)) ELSE proposed_plan_result,
                                <<Status>>)
              \/ /\ method \notin sw_missing
                 /\ EntryRaises(method, proposed_plan_result)

\* the run_sheet_plan entry when run_sheet_proposedPlan has a cached result
\* (lines 264-269)
SW_PlanReuses ==
    /\ sw_pc = "loop"
    /\ sw_idx < Len(sw_filtered)
    /\ ConfigAt(sw_filtered[sw_idx + 1]).run_method = "run_sheet_plan"
    /\ proposed_plan_result.set
    /\ EntryDone(RewritePrefixes(proposed_plan_result.text), <<>>, 0,
                 proposed_plan_result, <<Status>>)

\* a run_sheet_plan entry that calls its own method although the client has
\* run_sheet_proposedPlan
SW_PlanInvokesOwn ==
    /\ sw_pc = "loop"
    /\ sw_idx < Len(sw_filtered)
    /\ ConfigAt(sw_filtered[sw_idx + 1]).run_method = "run_sheet_plan"
    /\ ~proposed_plan_result.set
    /\ "run_sheet_proposedPlan" \notin sw_missing
    /\ \E result \in ResultsOf("run_sheet_plan") :
         EntryDone(Strip(result), <<Call("run_sheet_plan", TRUE, result)>>, 0,
                   proposed_plan_result, <<Status>>)

\* the run_sheet_plan entry when nothing is cached: run_sheet_proposedPlan is
\* called on its behalf (lines 270-281)
SW_PlanInvokes ==
    /\ sw_pc = "loop"
    /\ sw_idx < Len(sw_filtered)
    /\ ConfigAt(sw_filtered[sw_idx + 1]).run_method = "run_sheet_plan"
    /\ ~proposed_plan_result.set
    /\ "run_sheet_proposedPlan" \notin sw_missing
    /\ \/ \E result \in ResultsOf("run_sheet_proposedPlan") :
            EntryDone(RewritePrefixes(Strip(result)),
                      <<Call("run_sheet_proposedPlan", TRUE, result)>>, 0,
                      Some(Strip(result)), <<Status>>)
       \/ EntryRaises("run_sheet_proposedPlan", proposed_plan_result)

\* the run_sheet_plan entry when the client has no run_sheet_proposedPlan:
\* run_sheet_plan itself is the fallback (lines 282-294)
SW_PlanFallback ==
    /\ sw_pc = "loop"
    /\ sw_idx < Len(sw_filtered)
    /\ ConfigAt(sw_filtered[sw_idx + 1]).run_method = "run_sheet_plan"
    /\ ~proposed_plan_result.set
    /\ "run_sheet_proposedPlan" \in sw_missing
    /\ \/ /\ "run_sheet_plan" \in sw_missing
          /\ EntryMissing("run_sheet_plan")
       \/ /\ "run_sheet_plan" \notin sw_missing
          /\ \E result \in ResultsOf("run_sheet_plan") :
               EntryDone(Strip(result), <<Call("run_sheet_plan", TRUE, result)>>, 0,
                         proposed_plan_result, <<Status>>)
       \/ /\ "run_sheet_plan" \notin sw_missing
          /\ EntryRaises("run_sheet_plan", proposed_plan_result)

\* a finish that reports a run with a raised handler as failed
SW_FinishFailsOnError ==
    /\ sw_pc = "loop"
    /\ sw_idx = Len(sw_filtered)
    /\ sw_signals' = sw_signals \o
           (IF sw_raises > 0 THEN <<Failed(BOOM)>>
            ELSE <<Progress(100), Status, Completed(JoinSections(sw_sections))>>)
    /\ sw_pc' = IF sw_raises > 0 THEN "failed" ELSE "done"
    /\ UNCHANGED <<sw_selected, sw_available, sw_missing, sw_filtered, sw_idx,
                   sw_sections, proposed_plan_result, sw_calls, sw_raises>>
    /\ UNCHANGED not_sw

SW_Finish ==
    /\ sw_pc = "loop"
    /\ sw_idx = Len(sw_filtered)
    /\ sw_signals' = sw_signals \o
           <<Progress(100), Status, Completed(JoinSections(sw_sections))>>
    /\ sw_pc' = "done"
    /\ UNCHANGED <<sw_selected, sw_available, sw_missing, sw_filtered, sw_idx,
                   sw_sections, proposed_plan_result, sw_calls, sw_raises>>
    /\ UNCHANGED not_sw

SW_Next ==
    \/ SW_StartFails
    \/ SW_ClientFails
    \/ SW_Start
    \/ SW_Entry
    \/ SW_PlanReuses
    \/ SW_PlanInvokes
    \/ SW_PlanFallback
    \/ SW_Finish

(***************************************************************************)
(* ClassificationWorker.run (src/app.py): Stage 2, classification          *)
(***************************************************************************)
\* the summary texts a run may be constructed with
SummaryTexts ==
    { <<>>,
      JoinSections(<<SectionText(<<"S", "a">>, JSON_AB),
                     SectionText(<<"F", "p">>, <<"x", SP, "y">>)>>),
      JoinSections(<<SectionText(<<"F", "m">>, <<>>),
                     SectionText(<<"S", "b">>, <<QUOTE, "x", QUOTE>>),
                     SectionText(<<"F", "q">>, DumpsError(BOOM))>>),
      JoinSections(<<SectionText(<<"S", "a">>, <<QUOTE, QUOTE>>),
                     SectionText(<<"z", "z">>, <<"x">>),
                     SectionText(<<"S", "c">>, <<"{", "}">>)>>),
      JoinSections(<<SectionText(<<"S", "a">>, <<"x">>),
                     SectionText(<<"F", "m">>, <<"y">>),
                     SectionText(<<"S", "a">>, JSON_AB)>>) }

\* payload of the else branch: {"content": data}
ContentPayload(data) == JDict({<<CONTENT_KEY, data>>})

\* a payload that is never empty
InsertPayloadWrapsAbsent(extracted, key) ==
    IF key \notin DOMAIN extracted THEN ContentPayload(JStr(<<>>))
    ELSE IF extracted[key].kind = "dict" THEN extracted[key]
    ELSE ContentPayload(extracted[key])

\* payload and has_data of one entry (lines 430-439)
InsertPayload(extracted, key) ==
    IF key \notin DOMAIN extracted THEN JDict({})
    ELSE IF extracted[key].kind = "dict" THEN extracted[key]
    ELSE ContentPayload(extracted[key])

HasData(extracted, key) ==
    IF key \notin DOMAIN extracted THEN FALSE
    ELSE IF extracted[key].kind = "dict" THEN extracted[key].items # {}
    ELSE TRUE

InsertOk(path, has_data) ==
    [success |-> TRUE, path |-> path, has_data |-> has_data, error |-> <<>>]
\* a failure recorded as a success
InsertErrorAsSuccess(msg) ==
    [success |-> TRUE, path |-> <<>>, has_data |-> FALSE, error |-> msg]
InsertError(msg) ==
    [success |-> FALSE, path |-> <<>>, has_data |-> FALSE, error |-> msg]

\* the path an insertion handler returns
SavedPath(method) == <<"o", "/", method>>

\* the (idx, total) pairs where the double (idx / total) * 90 falls just
\* below the exact product
LossyNinety == {<<7, 10>>}

\* 10 + int((idx / total_sections) * 90), capped at 100
ClassificationProgress(idx, total) ==
    Min(10 + (idx * 90) \div total - (IF <<idx, total>> \in LossyNinety THEN 1 ELSE 0),
        100)

NoPayload == [done |-> FALSE, classification |-> <<>>, insertion |-> EmptyMap]

KW_Init ==
    /\ kw_pc = "start"
    /\ kw_text \in SummaryTexts
    /\ kw_selected \in Selections
    /\ kw_available \in BOOLEAN
    /\ kw_missing \in MissingSets
    /\ extracted_texts = EmptyMap
    /\ kw_filtered = <<>>
    /\ kw_idx = 0
    /\ insertion_results = EmptyMap
    /\ kw_calls = <<>>
    /\ kw_raises = 0
    /\ kw_signals = <<>>
    /\ results_payload = NoPayload

KW_Idle ==
    /\ kw_pc = "idle"
    /\ kw_text = <<>>
    /\ kw_selected = <<>>
    /\ kw_available = FALSE
    /\ kw_missing = {}
    /\ extracted_texts = EmptyMap
    /\ kw_filtered = <<>>
    /\ kw_idx = 0
    /\ insertion_results = EmptyMap
    /\ kw_calls = <<>>
    /\ kw_raises = 0
    /\ kw_signals = <<>>
    /\ results_payload = NoPayload

\* lines 381-392: the summary text is decoded before anything else
DecodeSignals(extracted) ==
    <<Status, Progress(0), Status, Progress(3)>>
    \o (IF DOMAIN extracted # {} THEN <<Status>> ELSE <<>>)

\* the failure raised by the selection checks (lines 404-416), if any
SelectionError(selected) ==
    IF selected = <<>> THEN <<"no_selection">>
    ELSE IF SelectedIndices(selected) = {} THEN <<"no_config">>
    ELSE <<>>

\* the run fails at or before the construction of the client
KW_ClientFails ==
    /\ kw_pc = "start"
    /\ extracted_texts' = ExtractSeparateTexts(kw_text)
    /\ \/ /\ ~kw_available
          /\ kw_signals' = kw_signals \o DecodeSignals(extracted_texts')
                 \o <<Failed(<<"no_summarizer">>)>>
       \/ /\ kw_available
          /\ kw_signals' = kw_signals \o DecodeSignals(extracted_texts')
                 \o <<Failed(<<"client_error">>)>>
    /\ kw_pc' = "failed"
    /\ UNCHANGED <<kw_text, kw_selected, kw_available, kw_missing, kw_filtered, kw_idx,
                   insertion_results, kw_calls, kw_raises, results_payload>>
    /\ UNCHANGED not_kw

\* the client is constructed, the selection resolves to nothing
KW_SelectionFails ==
    /\ kw_pc = "start"
    /\ kw_available
    /\ SelectionError(kw_selected) # <<>>
    /\ extracted_texts' = ExtractSeparateTexts(kw_text)
    /\ kw_signals' = kw_signals \o DecodeSignals(extracted_texts')
           \o <<Progress(8), Status, Progress(10), Failed(SelectionError(kw_selected))>>
    /\ kw_pc' = "failed"
    /\ UNCHANGED <<kw_text, kw_selected, kw_available, kw_missing, kw_filtered, kw_idx,
                   insertion_results, kw_calls, kw_raises, results_payload>>
    /\ UNCHANGED not_kw

KW_Start ==
    /\ kw_pc = "start"
    /\ kw_available
    /\ SelectionError(kw_selected) = <<>>
    /\ extracted_texts' = ExtractSeparateTexts(kw_text)
    /\ kw_signals' = kw_signals \o DecodeSignals(extracted_texts')
           \o <<Progress(8), Status, Progress(10)>>
    /\ kw_filtered' = FilteredConfigs(SelectedIndices(kw_selected))
    /\ insertion_results' = EmptyMap
    /\ kw_idx' = 0
    /\ kw_pc' = "loop"
    /\ UNCHANGED <<kw_text, kw_selected, kw_available, kw_missing, kw_calls, kw_raises,
                   results_payload>>
    /\ UNCHANGED not_kw

InsertCall(method, payload, ok) == [method |-> method, payload |-> payload, ok |-> ok]

\* one iteration of the insertion loop (lines 424-460)
KW_Insert ==
    /\ kw_pc = "loop"
    /\ kw_idx < Len(kw_filtered)
    /\ LET cfg == ConfigAt(kw_filtered[kw_idx + 1])
           key == cfg.summary_key
           method == cfg.insert_method
           payload == InsertPayload(extracted_texts, key)
           has_data == HasData(extracted_texts, key)
           progress == <<Progress(ClassificationProgress(kw_idx + 1, Len(kw_filtered)))>>
       IN  \/ /\ method \in kw_missing
              /\ insertion_results' =
                     Put(insertion_results, key, InsertError(NotFound(method)))
              /\ kw_signals' = kw_signals \o <<Status>>
              /\ UNCHANGED <<kw_calls, kw_raises>>
           \/ /\ method \notin kw_missing
              /\ insertion_results' =
                     Put(insertion_results, key, InsertOk(SavedPath(method), has_data))
              /\ kw_calls' = Append(kw_calls, InsertCall(method, payload, TRUE))
              /\ kw_signals' = kw_signals \o <<Status, Status>> \o progress
              /\ UNCHANGED kw_raises
           \/ /\ method \notin kw_missing
              /\ kw_raises < MaxRaises
              /\ insertion_results' = Put(insertion_results, key, InsertError(BOOM))
              /\ kw_calls' = Append(kw_calls, InsertCall(method, payload, FALSE))
              /\ kw_raises' = kw_raises + 1
              /\ kw_signals' = kw_signals \o <<Status, Status>> \o progress
    /\ kw_idx' = kw_idx + 1
    /\ UNCHANGED <<kw_pc, kw_text, kw_selected, kw_available, kw_missing,
                   extracted_texts, kw_filtered, results_payload>>
    /\ UNCHANGED not_kw

\* a classification part with an entry, possibly void, for every selected key
OrderedClassificationOfAll(filtered, extracted) ==
    [k \in 1..Len(filtered) |->
        <<ConfigAt(filtered[k]).summary_key,
          IF ConfigAt(filtered[k]).summary_key \in DOMAIN extracted
          THEN extracted[ConfigAt(filtered[k]).summary_key] ELSE JNone>>]

\* ordered_classification: the decoded payloads of the selected keys, in
\* catalog order (lines 466-467)
OrderedClassification(filtered, extracted) ==
    LET present == SelectSeq(filtered,
                             LAMBDA i : ConfigAt(i).summary_key \in DOMAIN extracted)
    IN  [k \in 1..Len(present) |->
            <<ConfigAt(present[k]).summary_key,
              extracted[ConfigAt(present[k]).summary_key]>>]

KW_Finish ==
    /\ kw_pc = "loop"
    /\ kw_idx = Len(kw_filtered)
    /\ results_payload' =
           [done |-> TRUE,
            classification |-> OrderedClassification(kw_filtered, extracted_texts),
            insertion |-> insertion_results]
    /\ kw_signals' = kw_signals \o <<Progress(100), Status, Sig("completed", 0, <<>>)>>
    /\ kw_pc' = "done"
    /\ UNCHANGED <<kw_text, kw_selected, kw_available, kw_missing, extracted_texts,
                   kw_filtered, kw_idx, insertion_results, kw_calls, kw_raises>>
    /\ UNCHANGED not_kw

KW_Next ==
    \/ KW_ClientFails
    \/ KW_SelectionFails
    \/ KW_Start
    \/ KW_Insert
    \/ KW_Finish

(***************************************************************************)
(* AudioToTextGUI (src/app.py)                                             *)
(***************************************************************************)
\* the words of the "transcription started" notice
START_NOTICE == "N"
\* datetime.now().strftime("%H:%M:%S")
TIMESTAMP == "T"
\* the summary an extraction worker hands over
SUMMARY == <<"s">>
\* the report on_classification_completed builds
RESULT_TEXT == <<"r">>
\* what the user types into the editable panel
EditedTexts == {<<"u">>, <<SP>>}

\* the files converted from the window: whole seconds of audio, cut into
\* chunks of one second
GuiDurations == {k * 1000 : k \in 0..MaxGuiChunks}

\* sub in t
Contains(t, sub) ==
    \E i \in 1..(Len(t) - Len(sub) + 1) : SubSeq(t, i, i + Len(sub) - 1) = sub

\* QThread.isRunning() of the conversion worker
ConversionRunning == cw_pc \in {"start", "loop", "exported"}

\* self.summarization_worker and self.summarization_worker.isRunning()
SummarizationRunning ==
    /\ summarization_worker # 0
    /\ stage_threads[summarization_worker].running

\* the signals of conversion workers not yet handled by the window, oldest
\* first
Undelivered ==
    cw_pending \o SubSeq(cw_signals, cw_seen + 1, Len(cw_signals))

\* the window takes the oldest queued signal of a conversion worker
TakeSignal ==
    IF cw_pending # <<>>
    THEN cw_pending' = Tail(cw_pending) /\ UNCHANGED cw_seen
    ELSE cw_seen' = cw_seen + 1 /\ UNCHANGED cw_pending

\* the text update_partial_results puts into the panel
PartialPanelText(current, text) ==
    IF text # <<>> /\ Head(text) = MEMO
    THEN IF Contains(text, <<MEMO, SP, START_NOTICE>>)
         THEN <<START_NOTICE>>
         ELSE Replace(text, <<MEMO, SP>>, <<>>)
    ELSE (IF current # <<>> /\ current[Len(current)] # NL
          THEN current \o <<NL>> ELSE current)
         \o <<"[", TIMESTAMP, "]", SP>> \o text \o <<NL>>

\* on_text_changed, connected to results_text.textChanged
OnTextChanged(text) ==
    /\ summarize_button' = (Strip(text) # <<>> /\ ~SummarizationRunning)
    /\ save_button' = (Strip(text) # <<>>)

\* reset_ui
ResetUi ==
    /\ convert_button' = TRUE
    /\ stop_button' = FALSE
    /\ current_worker' = "None"

\* the window after __init__
GUI_Init ==
    /\ convert_button = TRUE
    /\ stop_button = FALSE
    /\ summarize_button = FALSE
    /\ classification_button = FALSE
    /\ save_button = FALSE
    /\ results_text = <<>>
    /\ read_only = TRUE
    /\ current_worker = "None"
    /\ summarization_worker = 0
    /\ classification_worker = 0
    /\ stage_threads = <<>>
    /\ stage_queue = <<>>
    /\ cw_seen = 0
    /\ cw_pending = <<>>
    /\ gui_starts = 0

\* start_conversion with a file selected that exists
GUI_StartConversion ==
    /\ convert_button
    /\ gui_starts < MaxStarts
    /\ cw_pending' = Undelivered
    /\ cw_seen' = 0
    /\ cw_pc' = "start"
    /\ duration_ms' \in GuiDurations
    /\ chunk_length_sec' = 1
    /\ has_onnxruntime' = TRUE
    /\ remove_ok' = TRUE
    /\ num_chunks' = 0
    /\ chunk_i' = 0
    /\ paragraphs' = <<>>
    /\ temp_files' = {}
    /\ windows' = <<>>
    /\ engine_calls' = <<>>
    /\ cw_signals' = <<>>
    /\ convert_button' = FALSE
    /\ stop_button' = TRUE
    /\ results_text' = <<>>
    /\ save_button' = FALSE
    /\ summarize_button' = FALSE
    /\ classification_button' = FALSE
    /\ current_worker' = "ConversionWorker"
    /\ gui_starts' = gui_starts + 1
    /\ UNCHANGED <<read_only, summarization_worker, classification_worker,
                   stage_threads, stage_queue>>
    /\ UNCHANGED not_gui

\* stop_conversion
GUI_StopConversion ==
    /\ stop_button
    /\ cw_pc' = IF current_worker # "None" /\ ConversionRunning
                THEN "terminated" ELSE cw_pc
    /\ ResetUi
    /\ UNCHANGED <<duration_ms, chunk_length_sec, has_onnxruntime, remove_ok,
                   num_chunks, chunk_i, paragraphs, temp_files, windows,
                   engine_calls, cw_signals>>
    /\ UNCHANGED <<summarize_button, classification_button, save_button,
                   results_text, read_only, summarization_worker,
                   classification_worker, stage_threads, stage_queue, cw_seen,
                   cw_pending, gui_starts>>
    /\ UNCHANGED not_gui

\* update_progress and update_status
GUI_UpdateStatus ==
    /\ Undelivered # <<>>
    /\ Head(Undelivered).sig \in {"status", "progress"}
    /\ TakeSignal
    /\ UNCHANGED <<convert_button, stop_button, summarize_button,
                   classification_button, save_button, results_text,
                   read_only, current_worker, summarization_worker,
                   classification_worker, stage_threads, stage_queue,
                   gui_starts>>
    /\ UNCHANGED <<cw_vars, not_gui>>

\* update_partial_results
GUI_UpdatePartialResults ==
    /\ Undelivered # <<>>
    /\ Head(Undelivered).sig = "partial"
    /\ TakeSignal
    /\ results_text' = PartialPanelText(results_text, Head(Undelivered).text)
    /\ OnTextChanged(results_text')
    /\ UNCHANGED <<convert_button, stop_button, classification_button,
                   read_only, current_worker, summarization_worker,
                   classification_worker, stage_threads, stage_queue,
                   gui_starts>>
    /\ UNCHANGED <<cw_vars, not_gui>>

\* on_conversion_completed
GUI_OnConversionCompleted ==
    /\ Undelivered # <<>>
    /\ Head(Undelivered).sig = "completed"
    /\ TakeSignal
    /\ results_text' = Head(Undelivered).text
    /\ OnTextChanged(results_text')
    /\ classification_button' = FALSE
    /\ ResetUi
    /\ UNCHANGED <<read_only, summarization_worker, classification_worker,
                   stage_threads, stage_queue, gui_starts>>
    /\ UNCHANGED <<cw_vars, not_gui>>

\* on_conversion_failed
GUI_OnConversionFailed ==
    /\ Undelivered # <<>>
    /\ Head(Undelivered).sig = "failed"
    /\ TakeSignal
    /\ ResetUi
    /\ UNCHANGED <<summarize_button, classification_button, save_button,
                   results_text, read_only, summarization_worker,
                   classification_worker, stage_threads, stage_queue,
                   gui_starts>>
    /\ UNCHANGED <<cw_vars, not_gui>>

\* clear_results
GUI_ClearResults ==
    /\ results_text' = <<>>
    /\ OnTextChanged(results_text')
    /\ classification_button' = FALSE
    /\ UNCHANGED <<convert_button, stop_button, read_only, current_worker,
                   summarization_worker, classification_worker, stage_threads,
                   stage_queue, cw_seen, cw_pending, gui_starts>>
    /\ UNCHANGED <<cw_vars, not_gui>>

\* toggle_edit_mode
GUI_ToggleEditMode ==
    /\ read_only' = ~read_only
    /\ UNCHANGED <<convert_button, stop_button, summarize_button,
                   classification_button, save_button, results_text,
                   current_worker, summarization_worker, classification_worker,
                   stage_threads, stage_queue, cw_seen, cw_pending, gui_starts>>
    /\ UNCHANGED <<cw_vars, not_gui>>

\* the user types into the panel while it is editable
GUI_EditText ==
    /\ ~read_only
    /\ results_text' \in EditedTexts
    /\ results_text' # results_text
    /\ OnTextChanged(results_text')
    /\ UNCHANGED <<convert_button, stop_button, classification_button,
                   read_only, current_worker, summarization_worker,
                   classification_worker, stage_threads, stage_queue, cw_seen,
                   cw_pending, gui_starts>>
    /\ UNCHANGED <<cw_vars, not_gui>>

\* a started stage worker: running is QThread.isRunning(), emitted tells
\* whether its run has emitted its final signal
StageThread(stage) == [stage |-> stage, running |-> TRUE, emitted |-> FALSE]

\* summarize_text with at least one check box checked
GUI_SummarizeText ==
    /\ summarize_button
    /\ Strip(results_text) # <<>>
    /\ gui_starts < MaxStarts
    /\ summarize_button' = FALSE
    /\ stage_threads' = Append(stage_threads, StageThread("extraction"))
    /\ summarization_worker' = Len(stage_threads) + 1
    /\ gui_starts' = gui_starts + 1
    /\ UNCHANGED <<convert_button, stop_button, classification_button,
                   save_button, results_text, read_only, current_worker,
                   classification_worker, stage_queue, cw_seen, cw_pending>>
    /\ UNCHANGED <<cw_vars, not_gui>>

\* classify_text with at least one check box checked
GUI_ClassifyText ==
    /\ classification_button
    /\ Strip(results_text) # <<>>
    /\ gui_starts < MaxStarts
    /\ classification_button' = FALSE
    /\ stage_threads' = Append(stage_threads, StageThread("classification"))
    /\ classification_worker' = Len(stage_threads) + 1
    /\ gui_starts' = gui_starts + 1
    /\ UNCHANGED <<convert_button, stop_button, summarize_button, save_button,
                   results_text, read_only, current_worker,
                   summarization_worker, stage_queue, cw_seen, cw_pending>>
    /\ UNCHANGED <<cw_vars, not_gui>>

\* a stage worker's run emits its final signal
ThreadEnds(i, kind) ==
    /\ stage_threads[i].running
    /\ ~stage_threads[i].emitted
    /\ stage_threads' = [stage_threads EXCEPT ![i].emitted = TRUE]
    /\ stage_queue' = Append(stage_queue,
                             [stage |-> stage_threads[i].stage, sig |-> kind])
    /\ UNCHANGED <<convert_button, stop_button, summarize_button,
                   classification_button, save_button, results_text,
                   read_only, current_worker, summarization_worker,
                   classification_worker, cw_seen, cw_pending, gui_starts>>
    /\ UNCHANGED <<cw_vars, not_gui>>

\* summarization_completed.emit / classification_completed.emit
GUI_WorkerCompletes == \E i \in DOMAIN stage_threads : ThreadEnds(i, "completed")

\* summarization_failed.emit / classification_failed.emit
GUI_WorkerFails == \E i \in DOMAIN stage_threads : ThreadEnds(i, "failed")

\* run returns after its final emit and the thread finishes; the window may
\* handle the queued signal before or after that
GUI_WorkerExits ==
    /\ \E i \in DOMAIN stage_threads :
         /\ stage_threads[i].running
         /\ stage_threads[i].emitted
         /\ stage_threads' = [stage_threads EXCEPT ![i].running = FALSE]
    /\ UNCHANGED <<convert_button, stop_button, summarize_button,
                   classification_button, save_button, results_text,
                   read_only, current_worker, summarization_worker,
                   classification_worker, stage_queue, cw_seen, cw_pending,
                   gui_starts>>
    /\ UNCHANGED <<cw_vars, not_gui>>

\* the window takes the oldest queued signal of a stage worker
Queued(stage, kind) ==
    /\ stage_queue # <<>>
    /\ Head(stage_queue) = [stage |-> stage, sig |-> kind]
    /\ stage_queue' = Tail(stage_queue)

\* on_summarization_completed
GUI_OnSummarizationCompleted ==
    /\ Queued("extraction", "completed")
    /\ results_text' = SUMMARY
    /\ OnTextChanged(results_text')
    /\ classification_button' = TRUE
    /\ UNCHANGED <<convert_button, stop_button, read_only, current_worker,
                   summarization_worker, classification_worker, stage_threads,
                   cw_seen, cw_pending, gui_starts>>
    /\ UNCHANGED <<cw_vars, not_gui>>

\* on_summarization_failed
GUI_OnSummarizationFailed ==
    /\ Queued("extraction", "failed")
    /\ summarize_button' = TRUE
    /\ UNCHANGED <<convert_button, stop_button, classification_button,
                   save_button, results_text, read_only, current_worker,
                   summarization_worker, classification_worker, stage_threads,
                   cw_seen, cw_pending, gui_starts>>
    /\ UNCHANGED <<cw_vars, not_gui>>

\* on_classification_completed
GUI_OnClassificationCompleted ==
    /\ Queued("classification", "completed")
    /\ results_text' = RESULT_TEXT
    /\ OnTextChanged(results_text')
    /\ classification_button' = TRUE
    /\ UNCHANGED <<convert_button, stop_button, read_only, current_worker,
                   summarization_worker, classification_worker, stage_threads,
                   cw_seen, cw_pending, gui_starts>>
    /\ UNCHANGED <<cw_vars, not_gui>>

\* on_classification_failed
GUI_OnClassificationFailed ==
    /\ Queued("classification", "failed")
    /\ classification_button' = TRUE
    /\ UNCHANGED <<convert_button, stop_button, summarize_button, save_button,
                   results_text, read_only, current_worker,
                   summarization_worker, classification_worker, stage_threads,
                   cw_seen, cw_pending, gui_starts>>
    /\ UNCHANGED <<cw_vars, not_gui>>

\* the window, its conversion worker and its stage workers
GUI_Next ==
    \/ GUI_StartConversion
    \/ GUI_StopConversion
    \/ GUI_UpdateStatus
    \/ GUI_UpdatePartialResults
    \/ GUI_OnConversionCompleted
    \/ GUI_OnConversionFailed
    \/ GUI_ClearResults
    \/ GUI_ToggleEditMode
    \/ GUI_EditText
    \/ GUI_SummarizeText
    \/ GUI_ClassifyText
    \/ GUI_WorkerCompletes
    \/ GUI_WorkerFails
    \/ GUI_WorkerExits
    \/ GUI_OnSummarizationCompleted
    \/ GUI_OnSummarizationFailed
    \/ GUI_OnClassificationCompleted
    \/ GUI_OnClassificationFailed
    \/ CW_PrepareFails
    \/ CW_Prepare
    \/ CW_Export
    \/ CW_TranscribeFails
    \/ CW_Transcribe
    \/ CW_Finish

(***************************************************************************)
(* ConversionWorker.__init__ (src/audio.py): the language code             *)
(***************************************************************************)
HYPHEN == "-"

\* the characters of the language codes of the model
CodeChars == {"j", "a", "J", HYPHEN}

\* the language codes a worker may be constructed with
LanguageCodes == UNION { [1..n -> CodeChars] : n \in 0..MaxCodeLen }

\* a conversion that cuts at the last hyphen
ConvertLanguageCodeAtLastHyphen(code) ==
    IF \E i \in DOMAIN code : code[i] = HYPHEN
    THEN LET parts == Split(code, <<HYPHEN>>)
         IN  Join(SubSeq(parts, 1, Len(parts) - 1), <<HYPHEN>>)
    ELSE code

\* _convert_language_code: lang_code.split('-')[0] if '-' in lang_code
ConvertLanguageCode(code) ==
    IF \E i \in DOMAIN code : code[i] = HYPHEN
    THEN Split(code, <<HYPHEN>>)[1]
    ELSE code

LC_Init ==
    /\ lc_pc = "new"
    /\ lang_code \in LanguageCodes
    /\ language = <<>>

LC_Idle ==
    /\ lc_pc = "idle"
    /\ lang_code = <<>>
    /\ language = <<>>

\* __init__: self.language = self._convert_language_code(language)
LC_Construct ==
    /\ lc_pc = "new"
    /\ language' = ConvertLanguageCode(lang_code)
    /\ lc_pc' = "constructed"
    /\ UNCHANGED lang_code
    /\ UNCHANGED not_lc

LC_Next ==
    \/ LC_Construct

(***************************************************************************)
(* Specifications                                                          *)
(***************************************************************************)
\* one transcription run
InitCW == CW_Init /\ CD_Idle /\ SW_Idle /\ KW_Idle /\ GUI_Init /\ LC_Idle
SpecCW == InitCW /\ [][CW_Next]_vars

\* one blob: encoded or typed, edited by hand, decoded
InitCodec == CD_Init /\ CW_Idle /\ SW_Idle /\ KW_Idle /\ GUI_Init /\ LC_Idle
SpecCodec == InitCodec /\ [][CD_Next]_vars

\* one run of the extraction worker over the catalog
InitSW == SW_Init /\ KW_Idle /\ CW_Idle /\ CD_Idle /\ GUI_Init /\ LC_Idle
SpecSW == InitSW /\ [][SW_Next]_vars

\* one run of the classification worker over the catalog
InitKW == KW_Init /\ SW_Idle /\ CW_Idle /\ CD_Idle /\ GUI_Init /\ LC_Idle
SpecKW == InitKW /\ [][KW_Next]_vars

\* one run of either stage worker
InitStages == InitSW \/ InitKW
StagesNext == SW_Next \/ KW_Next
SpecStages == InitStages /\ [][StagesNext]_vars

\* the check boxes of the document types, in the order they are created
CHECKBOX_ORDER ==
    <<"service_meeting", "assessment", "proposed_plan", "plan", "monitoring">>

\* the lists summarize_text and classify_text build from the checked boxes
CheckedLists ==
    { SelectSeq(CHECKBOX_ORDER, LAMBDA t : t \in checked) :
        checked \in { c \in SUBSET DocTypes :
                        Cardinality(c) \in 1..MaxPipelineSelected } }

\* classify_text after on_summarization_completed: the summary shown in the
\* results panel is passed on unedited, with the selection of the check boxes
\* and the same Summarizer class
KW_FromExtraction ==
    /\ sw_pc = "done"
    /\ kw_pc = "idle"
    /\ Strip(sw_signals[Len(sw_signals)].text) # <<>>
    /\ sw_selected # <<>>
    /\ kw_text' = sw_signals[Len(sw_signals)].text
    /\ kw_selected' = sw_selected
    /\ kw_available' = sw_available
    /\ kw_missing' = sw_missing
    /\ kw_raises' = sw_raises
    /\ kw_pc' = "start"
    /\ UNCHANGED <<extracted_texts, kw_filtered, kw_idx, insertion_results, kw_calls,
                   kw_signals, results_payload>>
    /\ UNCHANGED not_kw

\* an extraction run followed by a classification run over its blob
PipelineNext ==
    \/ SW_StartFails
    \/ SW_ClientFails
    \/ SW_Start
    \/ SW_Entry
    \/ SW_PlanReuses
    \/ SW_PlanInvokes
    \/ SW_PlanFallback
    \/ SW_Finish
    \/ KW_FromExtraction
    \/ KW_ClientFails
    \/ KW_Start
    \/ KW_Insert
    \/ KW_Finish
InitPipeline == InitSW /\ sw_selected \in CheckedLists
SpecPipeline == InitPipeline /\ [][PipelineNext]_vars

\* the construction of a conversion worker
InitLanguage == LC_Init /\ CW_Idle /\ CD_Idle /\ SW_Idle /\ KW_Idle /\ GUI_Init
SpecLanguage == InitLanguage /\ [][LC_Next]_vars

\* a session of the window
InitGUI == GUI_Init /\ CW_Idle /\ CD_Idle /\ SW_Idle /\ KW_Idle /\ LC_Idle
SpecGUI == InitGUI /\ [][GUI_Next]_vars

\* one run of any of the three workers
InitWorkers == InitCW \/ InitSW \/ InitKW
WorkersNext == CW_Next \/ SW_Next \/ KW_Next
SpecWorkers == InitWorkers /\ [][WorkersNext]_vars

(***************************************************************************)
(* Properties of ConversionWorker                                          *)
(***************************************************************************)
CountSig(sigs, name) == Len(SelectSeq(sigs, LAMBDA s : s.sig = name))
LastSig(sigs) == sigs[Len(sigs)]

\* the transcript-carrying partial-result events of the run, in order
TranscriptEvents ==
    SelectSeq(cw_signals,
              LAMBDA s : s.sig = "partial" /\ s.text # <<>> /\ s.text[1] = MEMO)

\* the engine calls that returned
OkCalls == SelectSeq(engine_calls, LAMBDA c : c.ok)

\* the text of chunks 0..n-1 as the engine returned them, joined by a blank line
RECURSIVE TextsJoined(_, _)
TextsJoined(calls, n) ==
    IF n = 0 THEN <<>>
    ELSE IF n = 1 THEN Strip(Join(calls[1].parts, <<>>))
    ELSE TextsJoined(calls, n - 1) \o <<NL, NL>>
         \o Strip(Join(calls[n].parts, <<>>))

ValidInput == duration_ms > 0 /\ chunk_length_sec > 0

\* N, the number of chunks of the run: the length of range(num_chunks)
RunChunks == IF num_chunks > 0 THEN num_chunks ELSE 0

\* C1: for D > 0 and C > 0 the run cuts the audio into ceil(D/C) windows
\* [i*C, min((i+1)*C, D)), produced in ascending order: every window is
\* non-empty, the first starts at 0, each starts where the previous one ended,
\* none is longer than C and only the last may be shorter, and once the loop
\* has run to its end there are exactly ceil(D/C) of them and the last ends at D.
C1_WindowsPartition ==
    (ValidInput /\ (cw_pc \in {"loop", "exported", "done"} \/ engine_calls # <<>>)) =>
        LET C == chunk_length_sec * 1000
            D == duration_ms
            n == Len(windows)
        IN  /\ \A k \in 1..n :
                 /\ windows[k][1] < windows[k][2]
                 /\ windows[k][1] = (IF k = 1 THEN 0 ELSE windows[k - 1][2])
                 /\ windows[k][2] - windows[k][1] <= C
                 /\ windows[k][2] <= D
                 /\ windows[k][2] < D => windows[k][2] - windows[k][1] = C
            /\ n <= num_chunks
            /\ num_chunks * C >= D
            /\ (num_chunks - 1) * C < D
            /\ cw_pc = "done" =>
                 /\ n = num_chunks
                 /\ windows[n][2] = D

C1_Witness ==
    /\ cw_pc = "done"
    /\ duration_ms = 2001
    /\ chunk_length_sec = 1
    /\ windows = << <<0, 1000>>, <<1000, 2000>>, <<2000, 2001>> >>

\* C2: when a run completes, the completion signal is the last signal and
\* carries the texts of chunks 0..N-1, each transcribed once and in chunk
\* order, joined by a blank line.
C2_FinalTranscript ==
    cw_pc = "done" =>
        /\ Len(engine_calls) = RunChunks
        /\ \A k \in 1..Len(engine_calls) :
             engine_calls[k].ok /\ engine_calls[k].chunk = k - 1
        /\ LastSig(cw_signals).sig = "completed"
        /\ LastSig(cw_signals).text = TextsJoined(engine_calls, Len(engine_calls))

C2_Witness ==
    /\ cw_pc = "done"
    /\ num_chunks = 3
    /\ LastSig(cw_signals).text = <<"a", SP, "b", NL, NL, NL, NL, "a", SP, "b">>

\* C3: after each transcribed chunk i exactly one partial-result event is
\* emitted; its payload is the streaming marker followed by the whole
\* accumulated transcript (chunks 0..i joined by a blank line), never the
\* delta; the events come in chunk order, all before the completion signal,
\* whose transcript is that of the last partial event.
C3_PartialEvents ==
    /\ Len(TranscriptEvents) = Len(OkCalls)
    /\ \A k \in 1..Len(TranscriptEvents) :
         TranscriptEvents[k].text = <<MEMO, SP>> \o TextsJoined(OkCalls, k)
    /\ cw_pc = "done" =>
         /\ CountSig(cw_signals, "completed") = 1
         /\ LastSig(cw_signals).sig = "completed"
         /\ Len(TranscriptEvents) = RunChunks
         /\ RunChunks > 0 =>
              <<MEMO, SP>> \o LastSig(cw_signals).text
                  = TranscriptEvents[Len(TranscriptEvents)].text

C3_Witness ==
    /\ cw_pc = "done"
    /\ Len(TranscriptEvents) = 2
    /\ TranscriptEvents[1].text = <<MEMO, SP, "a", SP, "b">>
    /\ TranscriptEvents[2].text = <<MEMO, SP, "a", SP, "b", NL, NL, "a", SP, "b">>

EngineFailed ==
    engine_calls # <<>> /\ ~engine_calls[Len(engine_calls)].ok

\* C4: if the engine fails on chunk k the run aborts at once: chunk k was
\* tried once, no chunk after k is exported or transcribed, the failure signal
\* is emitted exactly once and is the last signal, no completion signal is
\* emitted, and the run takes no further step.
C4_FailFast ==
    (\E c \in 1..Len(engine_calls) : ~engine_calls[c].ok) =>
        LET k == engine_calls[Len(engine_calls)].chunk
        IN  /\ EngineFailed
            /\ cw_pc = "failed"
            /\ Len(engine_calls) = k + 1
            /\ \A c \in 1..Len(engine_calls) :
                 /\ engine_calls[c].chunk = c - 1
                 /\ engine_calls[c].ok <=> c <= k
            /\ Len(windows) = k + 1
            /\ CountSig(cw_signals, "failed") = 1
            /\ LastSig(cw_signals).sig = "failed"
            /\ CountSig(cw_signals, "completed") = 0
            /\ ~ENABLED CW_Next

C4_Witness ==
    /\ EngineFailed
    /\ engine_calls[Len(engine_calls)].chunk = 1
    /\ num_chunks = 3

(***************************************************************************)
(* Properties of the section codec                                         *)
(***************************************************************************)
\* the lines of a block, as written
RawLines(block) == Split(block, <<NL>>)

\* the header of a block: its first non-blank line (0: the block is blank)
HeaderAt(block) == FirstNonBlank(RawLines(block), 1)

\* a header line without its trailing whitespace and without one trailing colon
HeaderText(line) ==
    LET r == RStrip(line)
    IN  IF r # <<>> /\ r[Len(r)] = ":" THEN SubSeq(r, 1, Len(r) - 1) ELSE r

\* the key a block is headed by
KeyOf(block) == Strip(HeaderText(RawLines(block)[HeaderAt(block)]))

Keyed(block) == HeaderAt(block) # 0 /\ KeyOf(block) \in SUMMARY_KEY_SET
UnknownKeyed(block) == HeaderAt(block) # 0 /\ KeyOf(block) \notin SUMMARY_KEY_SET

BlocksOf(blob) ==
    IF Strip(blob) = <<>> THEN <<>> ELSE Split(blob, Separator)

\* the body of a block exactly as written after its header line, stripped
RawBody(block) ==
    LET lines == RawLines(block)
    IN  Strip(Join(SubSeq(lines, HeaderAt(block) + 1, Len(lines)), <<NL>>))

\* the body of a block with its blank lines left out and the trailing
\* whitespace of every line removed
NormalBody(block) ==
    LET lines == RawLines(block)
        rest == SubSeq(lines, HeaderAt(block) + 1, Len(lines))
        kept == SelectSeq(rest, LAMBDA l : Strip(l) # <<>>)
    IN  Strip(Join([k \in 1..Len(kept) |-> RStrip(kept[k])], <<NL>>))

Wrapped(text) == JDict({<<CONTENT_KEY, JStr(text)>>})

\* the payload a section content stands for: the structured value it renders,
\* or the raw text
SectionPayload(content) ==
    IF content = <<>> THEN JDict({})
    ELSE IF JsonLoads(content).ok THEN JsonLoads(content).val
    ELSE Wrapped(content)

\* C5: decoding the blob encoded from sections with distinct catalog keys
\* gives exactly the key-to-payload mapping of those sections, whatever the
\* payloads contain.
C5_RoundTrip ==
    (cd_pc = "decoded" /\ cd_sections # <<>> /\ cd_edit = NoEdit) =>
        cd_decoded =
            [key \in {cd_sections[k][1] : k \in 1..Len(cd_sections)} |->
                LET k == CHOOSE k \in 1..Len(cd_sections) : cd_sections[k][1] = key
                IN  SectionPayload(cd_sections[k][2])]

\* the blocks of the blob that are headed by a catalog key, in order
KeyedBlocks(blob) == SelectSeq(BlocksOf(blob), Keyed)

\* C6: every key of the decoded mapping is a catalog key, and the mapping is
\* the one decoded from the catalog-keyed blocks alone: a block with another
\* header adds nothing, changes nothing and removes nothing.
C6_UnknownKeysDropped ==
    cd_pc = "decoded" =>
        /\ DOMAIN cd_decoded \subseteq SUMMARY_KEY_SET
        /\ DOMAIN cd_decoded =
               {KeyOf(KeyedBlocks(cd_blob)[k]) : k \in 1..Len(KeyedBlocks(cd_blob))}
        /\ cd_decoded = ExtractSeparateTexts(Join(KeyedBlocks(cd_blob), Separator))

C6_Witness ==
    /\ cd_pc = "decoded"
    /\ Len(BlocksOf(cd_blob)) = 2
    /\ UnknownKeyed(BlocksOf(cd_blob)[1])
    /\ Keyed(BlocksOf(cd_blob)[2])
    /\ DOMAIN cd_decoded = {<<"S", "a">>}

\* the last block of the blob headed by key
LastBlockOf(blob, key) ==
    LET blocks == KeyedBlocks(blob)
        k == CHOOSE k \in 1..Len(blocks) :
                 /\ KeyOf(blocks[k]) = key
                 /\ \A j \in (k + 1)..Len(blocks) : KeyOf(blocks[j]) # key
    IN  blocks[k]

C8_EditsTolerated ==
    cd_edit # NoEdit =>
        ExtractSeparateTexts(cd_blob) = ExtractSeparateTexts(cd_before)

\* the header line of block b is a non-blank text that does not itself end in
\* a colon, followed by one colon
PlainHeader(blob, b) ==
    LET block == Split(blob, Separator)[b]
        line == RStrip(RawLines(block)[HeaderAt(block)])
        rest == RStrip(SubSeq(line, 1, Len(line) - 1))
    IN  /\ line[Len(line)] = ":"
        /\ rest # <<>>
        /\ rest[Len(rest)] # ":"

\* C8 (amended): as C8, the removal of a trailing colon being that of a header
\* line whose text before the colon is non-blank and does not itself end in a
\* colon.
C8_EditsToleratedPlainHeader ==
    (cd_edit # NoEdit /\ (cd_edit.kind = "colon" => PlainHeader(cd_before, cd_edit.block))) =>
        ExtractSeparateTexts(cd_blob) = ExtractSeparateTexts(cd_before)

C8_Witness ==
    /\ cd_edit.kind = "colon"
    /\ PlainHeader(cd_before, cd_edit.block)
    /\ Keyed(Split(cd_before, Separator)[cd_edit.block])
    /\ cd_pc = "decoded"
    /\ cd_decoded = ExtractSeparateTexts(cd_before)
    /\ DOMAIN cd_decoded # {}

(***************************************************************************)
(* Properties of the stage workers                                         *)
(***************************************************************************)
\* no identifier of the list is a known document type (the empty list too)
Unresolvable(selected) == \A k \in 1..Len(selected) : selected[k] \notin DocTypes

\* the catalog positions of the known groups of a list, in catalog order
KnownEntries(selected) ==
    SelectSeq([i \in 1..Len(SUMMARY_CONFIGS) |-> i - 1],
              LAMBDA i : \E k \in 1..Len(selected) :
                           /\ selected[k] \in DocTypes
                           /\ i \in DOCUMENT_TYPE_MAPPING[selected[k]])

SelectionMessages == {<<"no_selection">>, <<"no_config">>}

\* the extraction stage's half of C9
C9_Extraction ==
    /\ (sw_pc # "idle" /\ Unresolvable(sw_selected)) =>
          /\ sw_pc \in {"start", "failed"}
          /\ sw_calls = <<>>
          /\ sw_sections = <<>>
          /\ CountSig(sw_signals, "completed") = 0
          /\ sw_pc = "failed" =>
                /\ CountSig(sw_signals, "failed") = 1
                /\ LastSig(sw_signals).sig = "failed"
    /\ (sw_pc # "idle" /\ ~Unresolvable(sw_selected)) =>
          /\ sw_pc \in {"loop", "done"} => sw_filtered = KnownEntries(sw_selected)
          /\ sw_pc = "failed" => LastSig(sw_signals).text \notin SelectionMessages

\* the classification stage's half of C9
C9_Classification ==
    /\ (kw_pc # "idle" /\ Unresolvable(kw_selected)) =>
          /\ kw_pc \in {"start", "failed"}
          /\ kw_calls = <<>>
          /\ insertion_results = EmptyMap
          /\ results_payload = NoPayload
          /\ CountSig(kw_signals, "completed") = 0
          /\ kw_pc = "failed" =>
                /\ CountSig(kw_signals, "failed") = 1
                /\ LastSig(kw_signals).sig = "failed"
    /\ (kw_pc # "idle" /\ ~Unresolvable(kw_selected)) =>
          /\ kw_pc \in {"loop", "done"} => kw_filtered = KnownEntries(kw_selected)
          /\ kw_pc = "failed" => LastSig(kw_signals).text \notin SelectionMessages

\* C9: in the extraction stage and in the classification stage, a run whose
\* selection is empty or holds only unknown group identifiers never enters
\* the loop: it ends with one failure signal, no completion signal, no
\* handler call and no section or insertion result.  A run whose selection
\* holds a known group works on exactly the catalog entries of its known
\* groups, and never fails with a selection error.
C9_SelectionValidated == C9_Extraction /\ C9_Classification

\* a classification run that decoded a non-empty summary and constructed the
\* client, given two unknown groups, has failed
C9_Witness ==
    /\ kw_pc = "failed"
    /\ Len(kw_selected) = 2
    /\ Unresolvable(kw_selected)
    /\ kw_available
    /\ DOMAIN extracted_texts # {}
    /\ LastSig(kw_signals) = Failed(<<"no_config">>)

\* the handler calls made while entry k was processed
CallsOf(k) == SelectSeq(sw_calls, LAMBDA c : c.entry = k)

EntryKey(k) == ConfigAt(sw_filtered[k]).summary_key
EntryMethod(k) == ConfigAt(sw_filtered[k]).run_method

\* entry k has no handler to call
Unhandled(k) ==
    IF EntryMethod(k) = "run_sheet_plan"
    THEN {"run_sheet_proposedPlan", "run_sheet_plan"} \subseteq sw_missing
    ELSE EntryMethod(k) \in sw_missing

\* entry k failed: its handler is missing or the call made for it raised
EntryFailed(k) == Unhandled(k) \/ \E j \in 1..Len(CallsOf(k)) : ~CallsOf(k)[j].ok

\* the message of the failure of entry k
FailureMessage(k) ==
    IF CallsOf(k) # <<>> THEN CallsOf(k)[1].text
    ELSE NotFound(EntryMethod(k))

\* the handlers that may serve entry k
HandlersOf(k) ==
    IF EntryMethod(k) = "run_sheet_plan"
    THEN {"run_sheet_proposedPlan", "run_sheet_plan"} \ sw_missing
    ELSE {EntryMethod(k)}

\* the result the entry's own handling gives: what the call made for it
\* returned, and for the plan entry without a call, what the proposed-plan
\* entry's call returned
OwnResult(k) ==
    IF CallsOf(k) # <<>> THEN Strip(CallsOf(k)[1].text)
    ELSE LET pp == SelectSeq(sw_calls,
                             LAMBDA c : c.method = "run_sheet_proposedPlan" /\ c.ok)
         IN  Strip(pp[1].text)

\* a successful entry was served: by one call of a handler of its own, or,
\* for the plan entry, by the result run_sheet_proposedPlan already gave
Served(k) ==
    \/ /\ Len(CallsOf(k)) = 1
       /\ CallsOf(k)[1].method \in HandlersOf(k)
       /\ CallsOf(k)[1].text \in ResultsOf(CallsOf(k)[1].method)
    \/ /\ CallsOf(k) = <<>>
       /\ EntryMethod(k) = "run_sheet_plan"
       /\ \E j \in 1..Len(sw_calls) :
            /\ sw_calls[j].method = "run_sheet_proposedPlan"
            /\ sw_calls[j].ok
            /\ sw_calls[j].entry < k

\* the section of a successful entry: its key and its own result, the plan
\* entry's with the proposal field prefixes rewritten unless run_sheet_plan
\* itself produced it
OwnSection(k) ==
    SectionText(EntryKey(k),
                IF EntryMethod(k) = "run_sheet_plan"
                   /\ ~(CallsOf(k) # <<>> /\ CallsOf(k)[1].method = "run_sheet_plan")
                THEN RewritePrefixes(OwnResult(k))
                ELSE OwnResult(k))

\* C10: once the extraction loop has started the run never fails; every
\* entry processed so far has a section: a failed entry's section is its key
\* with the payload {"error": message}, any other entry was served by its own
\* handler and its section carries that result, whichever other entries
\* failed; a finished run has one section per resolved entry, has emitted
\* progress 100 and ends with the completion signal carrying the sections.
C10_FaultIsolation ==
    /\ sw_pc = "failed" => sw_calls = <<>> /\ sw_sections = <<>>
    /\ sw_pc \in {"loop", "done"} =>
          /\ Len(sw_sections) = sw_idx
          /\ \A k \in 1..sw_idx :
               IF EntryFailed(k)
               THEN sw_sections[k] =
                        SectionText(EntryKey(k), DumpsError(FailureMessage(k)))
               ELSE Served(k) /\ sw_sections[k] = OwnSection(k)
    /\ sw_pc = "done" =>
          /\ sw_idx = Len(sw_filtered)
          /\ sw_filtered = KnownEntries(sw_selected)
          /\ CountSig(sw_signals, "failed") = 0
          /\ CountSig(sw_signals, "completed") = 1
          /\ LastSig(sw_signals) = Completed(JoinSections(sw_sections))
          /\ \E j \in 1..Len(sw_signals) : sw_signals[j] = Progress(100)

\* a finished run in which one entry's handler raised, another entry's
\* handler is missing, and entries before, between and after them succeeded
C10_Witness ==
    /\ sw_pc = "done"
    /\ \E a, b, c, d \in 1..sw_idx :
         /\ a < b /\ b < c /\ c < d
         /\ ~EntryFailed(a)
         /\ EntryFailed(b)
         /\ ~EntryFailed(c)
         /\ EntryFailed(d)
         /\ \E e \in 1..sw_idx : e > d /\ ~EntryFailed(e)
         /\ Unhandled(b) # Unhandled(d)

(***************************************************************************)
(* Properties of the alias rule                                            *)
(***************************************************************************)
PROPOSED == "run_sheet_proposedPlan"
PLAN == "run_sheet_plan"

\* the entry of the run whose run method is m (0: not resolved)
EntryOf(m) ==
    IF \E k \in 1..Len(sw_filtered) : EntryMethod(k) = m
    THEN CHOOSE k \in 1..Len(sw_filtered) : EntryMethod(k) = m
    ELSE 0

Resolved(m) == EntryOf(m) # 0
Processed(m) == Resolved(m) /\ EntryOf(m) <= sw_idx

\* the calls of run_sheet_proposedPlan made in the run so far
ProposedCalls == SelectSeq(sw_calls, LAMBDA c : c.method = PROPOSED)

PlanSection(content) == SectionText(EntryKey(EntryOf(PLAN)), content)

\* the run resolved "plan" without "proposed-plan" and has processed "plan"
PlanAlone ==
    /\ sw_pc \in {"loop", "done"}
    /\ Processed(PLAN)
    /\ ~Resolved(PROPOSED)

\* what C11 promises of such a run
InvokedForPlan ==
    /\ Len(ProposedCalls) = 1
    /\ ProposedCalls[1].entry = EntryOf(PLAN)
    /\ ProposedCalls[1].ok =>
          sw_sections[EntryOf(PLAN)] =
              PlanSection(RewritePrefixes(Strip(ProposedCalls[1].text)))

\* C11 as stated: in a run in which "plan" is resolved and "proposed-plan" is
\* not, run_sheet_proposedPlan is called exactly once, when "plan" is
\* reached, and the "plan" section carries its result with the prefixes
\* rewritten.
C11_PlanInvokesProposed == PlanAlone => InvokedForPlan

\* C11 (amended): the same, for a client that has a run_sheet_proposedPlan
\* method.
C11_PlanInvokesProposedIfPresent ==
    (PlanAlone /\ PROPOSED \notin sw_missing) => InvokedForPlan

\* a finished run over "plan" alone whose section differs from the result the
\* handler returned
C11_Witness ==
    /\ sw_pc = "done"
    /\ PlanAlone
    /\ PROPOSED \notin sw_missing
    /\ Len(ProposedCalls) = 1
    /\ ProposedCalls[1].ok
    /\ sw_sections[EntryOf(PLAN)] # PlanSection(Strip(ProposedCalls[1].text))

\* the payload text of a section written for key
ContentOf(section, key) == SubSeq(section, Len(key) + 3, Len(section))

\* the payload text of the section of the entry whose run method is m
SectionContent(m) == ContentOf(sw_sections[EntryOf(m)], EntryKey(EntryOf(m)))

\* C12: in a run in which "proposed-plan" and "plan" are both resolved (the
\* client having a run_sheet_proposedPlan method), "proposed-plan" is
\* processed before "plan", run_sheet_proposedPlan is called exactly once in
\* the run, and the "plan" payload is the prefix-rewritten copy of the payload
\* of the "proposed-plan" section.
C12_PlanReusesCached ==
    (/\ sw_pc \in {"loop", "done"}
     /\ Resolved(PROPOSED)
     /\ Processed(PLAN)
     /\ PROPOSED \notin sw_missing) =>
        /\ EntryOf(PROPOSED) < EntryOf(PLAN)
        /\ Len(ProposedCalls) = 1
        /\ SectionContent(PLAN) = RewritePrefixes(SectionContent(PROPOSED))

\* the name of a field with the proposal prefixes renamed
RenameField(name) ==
    LET proposal == Tail(PROPOSAL_PREFIX)
        weekly == Tail(PROPOSAL_WEEK_PREFIX)
    IN  IF MatchAt(name, proposal, 1)
        THEN Tail(PLAN_PREFIX) \o SubSeq(name, Len(proposal) + 1, Len(name))
        ELSE IF MatchAt(name, weekly, 1)
        THEN Tail(PLAN_WEEK_PREFIX) \o SubSeq(name, Len(weekly) + 1, Len(name))
        ELSE name

\* a structured payload with its field names renamed and its values kept
RenamedPayload(payload) ==
    JDict({<<RenameField(item[1]), item[2]>> : item \in payload.items})

\* the call of run_sheet_proposedPlan the "plan" section stems from
LastProposedCall == ProposedCalls[Len(ProposedCalls)]

\* C13: the "plan" payload is the structured payload run_sheet_proposedPlan
\* returned with the proposal prefixes of its field names renamed and with
\* every other field name and every field value unchanged; the
\* "proposed-plan" section carries the result as returned.
C13_RewriteRenamesFieldNames ==
    /\ (/\ sw_pc \in {"loop", "done"}
        /\ Processed(PLAN)
        /\ ProposedCalls # <<>>
        /\ LastProposedCall.ok
        /\ JsonLoads(Strip(LastProposedCall.text)).ok) =>
           /\ JsonLoads(SectionContent(PLAN)).ok
           /\ JsonLoads(SectionContent(PLAN)).val =
                  RenamedPayload(JsonLoads(Strip(LastProposedCall.text)).val)
    /\ (/\ sw_pc \in {"loop", "done"}
        /\ Processed(PROPOSED)
        /\ CallsOf(EntryOf(PROPOSED)) # <<>>
        /\ CallsOf(EntryOf(PROPOSED))[1].ok) =>
           SectionContent(PROPOSED) = Strip(CallsOf(EntryOf(PROPOSED))[1].text)

\* C14: in a run in which "plan" is resolved, every failure of
\* run_sheet_proposedPlan, at the "proposed-plan" entry or at the "plan"
\* entry, gives the "plan" section the payload {"error": message} of that
\* failure.
C14_PlanGetsProposedError ==
    (sw_pc \in {"loop", "done"} /\ Processed(PLAN)) =>
        \A j \in 1..Len(ProposedCalls) :
            ~ProposedCalls[j].ok =>
                SectionContent(PLAN) = DumpsError(ProposedCalls[j].text)

\* the "plan" payload stems from a call made in this run
DerivedInRun ==
    \/ \E j \in 1..Len(ProposedCalls) :
         SectionContent(PLAN) =
             (IF ProposedCalls[j].ok
              THEN RewritePrefixes(Strip(ProposedCalls[j].text))
              ELSE DumpsError(ProposedCalls[j].text))

\* the loop is entered with nothing cached
FreshCache == (sw_pc = "loop" /\ sw_idx = 0) => proposed_plan_result = None

\* C15 as stated: the cache is empty when the loop starts, and in every run
\* in which "plan" is resolved run_sheet_proposedPlan is called at least once
\* in that run and the "plan" payload stems from a call of that run.
C15_CachePerRun ==
    /\ FreshCache
    /\ (sw_pc \in {"loop", "done"} /\ Processed(PLAN)) =>
          /\ Len(ProposedCalls) >= 1
          /\ DerivedInRun

\* C15 (amended): the same, for a client that has a run_sheet_proposedPlan
\* method.
C15_CachePerRunIfPresent ==
    /\ FreshCache
    /\ (sw_pc \in {"loop", "done"} /\ Processed(PLAN) /\ PROPOSED \notin sw_missing) =>
          /\ Len(ProposedCalls) >= 1
          /\ DerivedInRun

\* a finished run over "proposed-plan" and "plan" in which the one call made
\* at the "proposed-plan" entry served both sections
C15_Witness ==
    /\ sw_pc = "done"
    /\ Resolved(PROPOSED)
    /\ Processed(PLAN)
    /\ Len(ProposedCalls) = 1
    /\ LastProposedCall.ok
    /\ LastProposedCall.entry = EntryOf(PROPOSED)
    /\ SectionContent(PLAN) = RewritePrefixes(Strip(LastProposedCall.text))
    /\ SectionContent(PLAN) # SectionContent(PROPOSED)

(***************************************************************************)
(* Properties of ClassificationWorker.run                                  *)
(***************************************************************************)
KwKey(k) == ConfigAt(kw_filtered[k]).summary_key
KwMethod(k) == ConfigAt(kw_filtered[k]).insert_method

\* the insertion handler calls made for entry k
InsertCallsOf(k) == SelectSeq(kw_calls, LAMBDA c : c.method = KwMethod(k))

\* the mapping the summary text of the run decodes to
Decoded == ExtractSeparateTexts(kw_text)

\* the payload of a decoded section as the handler receives it: a structured
\* value as it is, any other value under "content"
HandedOver(value) ==
    IF value.kind = "dict" THEN value ELSE JDict({<<CONTENT_KEY, value>>})

\* a decoded payload that holds nothing: no field, or no text
EmptyPayload(value) == value = JDict({}) \/ value = JStr(<<>>)

\* C16: for every entry a classification run has processed: without a
\* decoded section for its key the handler receives the empty payload and
\* has_data is false; with one, has_data is true unless that section's
\* payload is empty.
C16_HasData ==
    kw_pc \in {"loop", "done"} =>
        \A k \in 1..kw_idx :
            LET calls == InsertCallsOf(k)
                record == insertion_results[KwKey(k)]
            IN  IF KwKey(k) \notin DOMAIN Decoded
                THEN /\ \A j \in 1..Len(calls) : calls[j].payload = JDict({})
                     /\ record.success => ~record.has_data
                ELSE record.success =>
                         (record.has_data <=> ~EmptyPayload(Decoded[KwKey(k)]))

\* what holds of has_data: it tells whether the payload handed to the
\* handler, a non-structured value being wrapped under "content", has a field
HasDataOfHandedOver ==
    kw_pc \in {"loop", "done"} =>
        \A k \in 1..kw_idx :
            LET calls == InsertCallsOf(k)
                record == insertion_results[KwKey(k)]
            IN  IF KwKey(k) \notin DOMAIN Decoded
                THEN /\ \A j \in 1..Len(calls) : calls[j].payload = JDict({})
                     /\ record.success => ~record.has_data
                ELSE /\ \A j \in 1..Len(calls) :
                          calls[j].payload = HandedOver(Decoded[KwKey(k)])
                     /\ record.success =>
                          (record.has_data <=> HandedOver(Decoded[KwKey(k)]) # JDict({}))

\* a finished run with a successful entry of each kind: no section, a section
\* with an empty payload, a section with a payload
EachKindInserted ==
    /\ kw_pc = "done"
    /\ \E a, b, c \in 1..kw_idx :
         /\ insertion_results[KwKey(a)].success
         /\ insertion_results[KwKey(b)].success
         /\ insertion_results[KwKey(c)].success
         /\ KwKey(a) \notin DOMAIN Decoded
         /\ KwKey(b) \in DOMAIN Decoded
         /\ Decoded[KwKey(b)] = JDict({})
         /\ ~insertion_results[KwKey(b)].has_data
         /\ KwKey(c) \in DOMAIN Decoded
         /\ insertion_results[KwKey(c)].has_data

\* the resolved keys of the run
ResolvedKeys == {KwKey(k) : k \in 1..Len(kw_filtered)}

\* the record the entry's own outcome calls for
OwnRecord(k) ==
    IF KwMethod(k) \in kw_missing THEN InsertError(NotFound(KwMethod(k)))
    ELSE IF InsertCallsOf(k)[1].ok
    THEN InsertOk(SavedPath(KwMethod(k)),
                  KwKey(k) \in DOMAIN Decoded
                  /\ HandedOver(Decoded[KwKey(k)]) # JDict({}))
    ELSE InsertError(BOOM)

\* C17: once the insertion loop has started the run never fails; the
\* insertion result has one record for every entry processed so far and for
\* no other key; an entry whose handler is missing was not called and has a
\* failure record, any other entry was called once and its record is the
\* failure or the success of that call, whichever other entries failed; a
\* completed run has processed every resolved entry.
C17_InsertionIsolated ==
    /\ kw_pc = "failed" => kw_calls = <<>> /\ insertion_results = EmptyMap
    /\ kw_pc \in {"loop", "done"} =>
          /\ kw_filtered = KnownEntries(kw_selected)
          /\ DOMAIN insertion_results = {KwKey(k) : k \in 1..kw_idx}
          /\ \A k \in 1..kw_idx :
               /\ Len(InsertCallsOf(k)) = (IF KwMethod(k) \in kw_missing THEN 0 ELSE 1)
               /\ insertion_results[KwKey(k)] = OwnRecord(k)
               /\ insertion_results[KwKey(k)].success <=>
                      (InsertCallsOf(k) # <<>> /\ InsertCallsOf(k)[1].ok)
    /\ kw_pc = "done" =>
          /\ kw_idx = Len(kw_filtered)
          /\ results_payload.done
          /\ results_payload.insertion = insertion_results
          /\ DOMAIN results_payload.insertion = ResolvedKeys
          /\ CountSig(kw_signals, "failed") = 0
          /\ CountSig(kw_signals, "completed") = 1

\* a completed run in which a handler raised, another is missing, and
\* entries before, between and after them succeeded
C17_Witness ==
    /\ kw_pc = "done"
    /\ \E a, b, c, d, e \in 1..kw_idx :
         /\ a < b /\ b < c /\ c < d /\ d < e
         /\ insertion_results[KwKey(a)].success
         /\ ~insertion_results[KwKey(b)].success
         /\ insertion_results[KwKey(c)].success
         /\ ~insertion_results[KwKey(d)].success
         /\ insertion_results[KwKey(e)].success
         /\ (KwMethod(b) \in kw_missing) # (KwMethod(d) \in kw_missing)

\* the keys of the classification part, in the order it lists them
ClassificationKeys ==
    [k \in 1..Len(results_payload.classification) |->
        results_payload.classification[k][1]]

\* the resolved keys, in ascending catalog order
ResolvedKeysInOrder == [k \in 1..Len(kw_filtered) |-> KwKey(k)]

\* the insertion part lists its keys in ascending catalog order: the catalog
\* positions of the run ascend and every iteration adds the next key
InsertionInOrder ==
    /\ \A i, j \in 1..Len(kw_filtered) : i < j => kw_filtered[i] < kw_filtered[j]
    /\ kw_pc \in {"loop", "done"} =>
          DOMAIN insertion_results = {KwKey(k) : k \in 1..kw_idx}

\* C18 as stated: the classification part and the insertion part of a
\* completed run both have exactly the resolved keys, in ascending catalog
\* order.
C18_AggregatePerResolvedKey ==
    /\ InsertionInOrder
    /\ kw_pc = "done" =>
          /\ DOMAIN results_payload.insertion = ResolvedKeys
          /\ ClassificationKeys = ResolvedKeysInOrder

\* C18 (amended): the insertion part has exactly the resolved keys, the
\* classification part exactly the resolved keys the summary text has a
\* section for, each with its decoded payload, both in ascending catalog
\* order.
C18_AggregatePerDecodedKey ==
    /\ InsertionInOrder
    /\ kw_pc = "done" =>
          /\ DOMAIN results_payload.insertion = ResolvedKeys
          /\ ClassificationKeys =
                 SelectSeq(ResolvedKeysInOrder, LAMBDA key : key \in DOMAIN Decoded)
          /\ \A k \in 1..Len(results_payload.classification) :
               results_payload.classification[k][2] = Decoded[ClassificationKeys[k]]

\* a completed run over several resolved keys of which two, not the first,
\* have a section
C18_Witness ==
    /\ kw_pc = "done"
    /\ Len(results_payload.classification) = 2
    /\ Len(kw_filtered) > 2
    /\ ClassificationKeys[1] # KwKey(1)

(***************************************************************************)
(* Properties of the progress signals                                      *)
(***************************************************************************)
\* the progress values a run has emitted, in order
ProgressValues(sigs) ==
    LET ps == SelectSeq(sigs, LAMBDA g : g.sig = "progress")
    IN  [k \in 1..Len(ps) |-> ps[k].num]

\* how often a run has emitted the progress value 100
Hundreds(sigs) == Len(SelectSeq(ProgressValues(sigs), LAMBDA n : n = 100))

\* C19: a run of the transcription, the extraction or the classification
\* worker that has ended with the completion signal has emitted the progress
\* value 100 exactly once.
C19_HundredOnce ==
    /\ cw_pc = "done" => Hundreds(cw_signals) = 1
    /\ sw_pc = "done" => Hundreds(sw_signals) = 1
    /\ kw_pc = "done" => Hundreds(kw_signals) = 1

\* what holds of the extraction worker alone
HundredOnceInExtraction == sw_pc = "done" => Hundreds(sw_signals) = 1

Monotone(values) ==
    /\ \A k \in 1..Len(values) : values[k] \in 0..100
    /\ \A j, k \in 1..Len(values) : j < k => values[j] <= values[k]

\* C20: at every point of a run of any of the three workers, the progress
\* values emitted so far are integers of 0..100 in non-decreasing order.
C20_ProgressMonotone ==
    /\ Monotone(ProgressValues(cw_signals))
    /\ Monotone(ProgressValues(sw_signals))
    /\ Monotone(ProgressValues(kw_signals))

\* a completed classification run over nine entries or more in which one
\* entry had no handler and another one's handler raised
C20_Witness ==
    /\ kw_pc = "done"
    /\ Len(kw_filtered) >= 9
    /\ kw_raises >= 1
    /\ \E k \in 1..Len(kw_filtered) : KwMethod(k) \in kw_missing
    /\ Len(ProgressValues(kw_signals)) >= 12

(***************************************************************************)
(* Further properties of ConversionWorker                                  *)
(***************************************************************************)
\* C22: a transcription run whose audio duration or whose chunk length is
\* not positive never completes, calls the engine for no chunk and emits no
\* completion signal.
C22_InvalidInputFails ==
    (cw_pc # "idle" /\ ~ValidInput) =>
        /\ cw_pc # "done"
        /\ engine_calls = <<>>
        /\ CountSig(cw_signals, "completed") = 0

\* C23: once a transcription run has emitted its completion or its failure
\* signal, and deletion does not fail, no temporary chunk file of the run is
\* left.
C23_TempFilesRemoved ==
    (cw_pc \in {"done", "failed"} /\ remove_ok) => temp_files = {}

\* what holds of the temporary files: only the file of the chunk the engine
\* failed on is left
OnlyFailedChunkLeft ==
    (cw_pc \in {"done", "failed"} /\ remove_ok) =>
        temp_files = {c \in 0..(chunk_i) : cw_pc = "failed" /\ engine_calls # <<>>
                                           /\ c = chunk_i}

\* C30: in a run over N >= 1 chunks the progress value emitted after chunk i
\* is floor((i + 1) * 100 / N); after the last chunk it is 100.  (The run
\* emits the value 0 three times before the first chunk.)
C30_ChunkProgress ==
    (cw_pc \in {"loop", "exported", "done", "failed"} /\ num_chunks >= 1) =>
        \A i \in 0..(Len(paragraphs) - 1) :
            ProgressValues(cw_signals)[4 + i] = ((i + 1) * 100) \div num_chunks

(***************************************************************************)
(* Properties of the stage boundary and of the processing order            *)
(***************************************************************************)
\* the failures a stage run raises itself, before its loop
StageMessages ==
    {<<"no_summarizer">>, <<"no_selection">>, <<"no_config">>, <<"client_error">>}

ErrorPayload(msg) == JDict({<<ERROR_KEY, JStr(msg)>>})

\* C25: an extraction or classification run that has entered its loop (its
\* selection resolved to an entry, its client was constructed) never emits
\* the failure signal, whichever handlers raise or are missing, and ends with
\* the completion signal; a failure signal carries a failure of the stage
\* itself, and a handler's error is found as {"error": message} in the
\* entry's section, or as the error of the entry's insertion record.
C25_EntryErrorsStayInside ==
    /\ sw_pc \in {"loop", "done"} =>
          /\ CountSig(sw_signals, "failed") = 0
          /\ \A k \in 1..sw_idx :
               EntryFailed(k) =>
                   /\ JsonLoads(ContentOf(sw_sections[k], EntryKey(k))).ok
                   /\ JsonLoads(ContentOf(sw_sections[k], EntryKey(k))).val =
                          ErrorPayload(FailureMessage(k))
    /\ sw_pc = "done" => LastSig(sw_signals).sig = "completed"
    /\ sw_pc = "failed" =>
          /\ LastSig(sw_signals).text \in StageMessages
          /\ sw_calls = <<>>
    /\ kw_pc \in {"loop", "done"} =>
          /\ CountSig(kw_signals, "failed") = 0
          /\ \A k \in 1..kw_idx :
               (KwMethod(k) \in kw_missing \/ ~InsertCallsOf(k)[1].ok) =>
                   /\ ~insertion_results[KwKey(k)].success
                   /\ insertion_results[KwKey(k)].error # <<>>
    /\ kw_pc = "done" => LastSig(kw_signals).sig = "completed"
    /\ kw_pc = "failed" =>
          /\ LastSig(kw_signals).text \in StageMessages
          /\ kw_calls = <<>>

\* a completed classification run in which two handlers raised and a third
\* entry had none
C25_Witness ==
    /\ kw_pc = "done"
    /\ kw_raises >= 2
    /\ \E k \in 1..kw_idx : KwMethod(k) \in kw_missing
    /\ LastSig(kw_signals).sig = "completed"

\* the key a section is written for
SectionKeyIs(section, key) == MatchAt(section, key \o <<":", NL>>, 1)

\* C27: the entries of an extraction run are those of the known groups of
\* the selection, whatever the order and repetition of the list, in ascending
\* catalog order; the handler calls are made one entry after the other, at
\* most one per entry, each of a handler of that entry; the run writes one
\* section per processed entry, in that order, under the entry's key, and the
\* completed blob is the join of exactly these sections.
C27_CatalogOrder ==
    sw_pc \in {"loop", "done"} =>
        /\ sw_filtered = KnownEntries(sw_selected)
        /\ \A i, j \in 1..Len(sw_filtered) : i < j => sw_filtered[i] < sw_filtered[j]
        /\ \A i, j \in 1..Len(sw_calls) : i < j => sw_calls[i].entry < sw_calls[j].entry
        /\ \A j \in 1..Len(sw_calls) :
             /\ sw_calls[j].entry \in 1..sw_idx
             /\ sw_calls[j].method \in HandlersOf(sw_calls[j].entry)
        /\ Len(sw_sections) = sw_idx
        /\ \A k \in 1..sw_idx : SectionKeyIs(sw_sections[k], EntryKey(k))
        /\ sw_pc = "done" =>
              /\ sw_idx = Len(sw_filtered)
              /\ LastSig(sw_signals) = Completed(JoinSections(sw_sections))

\* a completed run whose selection names a later group before an earlier one
\* and in which the handler of the first entry was called first
C27_Witness ==
    /\ sw_pc = "done"
    /\ Len(sw_selected) = 2
    /\ sw_selected[1] = "plan"
    /\ sw_selected[2] = "service_meeting"
    /\ Len(sw_calls) >= 2
    /\ sw_calls[1].method = "run_sheet1"
    /\ Len(sw_sections) = 9

\* the entries processed so far that have an insertion handler
HandledEntries ==
    SelectSeq([k \in 1..kw_idx |-> k], LAMBDA k : KwMethod(k) \notin kw_missing)

\* C28: in a classification run the insertion handler calls made so far are
\* exactly one call per processed entry that has a handler, in ascending
\* catalog order, whatever the earlier calls did; an entry without a section
\* in the blob is called with the empty payload; no handler of an entry
\* outside the selection is called.
C28_InsertionOrder ==
    kw_pc \in {"loop", "done"} =>
        /\ \A i, j \in 1..Len(kw_filtered) : i < j => kw_filtered[i] < kw_filtered[j]
        /\ kw_filtered = KnownEntries(kw_selected)
        /\ Len(kw_calls) = Len(HandledEntries)
        /\ \A j \in 1..Len(kw_calls) :
             /\ kw_calls[j].method = KwMethod(HandledEntries[j])
             /\ KwKey(HandledEntries[j]) \notin DOMAIN Decoded =>
                    kw_calls[j].payload = JDict({})

\* a completed run whose blob has a section for a key outside the selection
\* and none for a selected entry, which was called all the same
C28_Witness ==
    /\ kw_pc = "done"
    /\ \E key \in DOMAIN Decoded : key \notin ResolvedKeys
    /\ \E j \in 1..Len(kw_calls) :
         /\ KwKey(HandledEntries[j]) \notin DOMAIN Decoded
         /\ kw_calls[j].payload = JDict({})
    /\ \E j \in 1..Len(kw_calls) : ~kw_calls[j].ok /\ j < Len(kw_calls)

(***************************************************************************)
(* Properties of an extraction run followed by a classification run        *)
(***************************************************************************)
\* the classification run works on the blob and the entries of the
\* extraction run
Handed ==
    /\ kw_pc \in {"loop", "done"}
    /\ sw_pc = "done"
    /\ kw_text = LastSig(sw_signals).text
    /\ kw_filtered = sw_filtered

RunningStageThreads == {i \in DOMAIN stage_threads : stage_threads[i].running}

\* the workers of all three stages that are running
RunningWorkers ==
    (IF ConversionRunning THEN 1 ELSE 0) + Cardinality(RunningStageThreads)

\* C21: at any time at most one stage worker is running: the window never
\* starts a transcription, extraction or classification worker while another
\* worker is still running.
C21_OneWorkerAtATime == RunningWorkers <= 1

\* the transcript of the chunks the conversion worker has transcribed
TranscriptSoFar == JoinParagraphs(paragraphs)

\* the conversion worker failed at a chunk after transcribing text, and the
\* window has handled all its signals
ChunkFailureHandled ==
    /\ cw_pc = "failed"
    /\ engine_calls # <<>>
    /\ Undelivered = <<>>
    /\ Strip(TranscriptSoFar) # <<>>

\* C24: when a chunk fails, the chunks already transcribed are discarded: the
\* failure signal carries no transcript text, and once the failure has been
\* handled the results panel holds no transcript text of that run.
C24_PartialTranscriptDiscarded ==
    ChunkFailureHandled =>
        /\ \A k \in DOMAIN cw_signals :
             cw_signals[k].sig = "failed" =>
                 ~Contains(cw_signals[k].text, Strip(TranscriptSoFar))
        /\ ~Contains(results_text, Strip(TranscriptSoFar))

\* the part of C24 that holds: the failure signal carries no transcript text
FailureSignalWithoutTranscript ==
    ChunkFailureHandled =>
        \A k \in DOMAIN cw_signals :
            cw_signals[k].sig = "failed" =>
                ~Contains(cw_signals[k].text, Strip(TranscriptSoFar))

\* C26: whenever a transcription, an extraction or a classification worker is
\* running, the stop control is available.
C26_StopAvailable == RunningWorkers > 0 => stop_button

\* the part of C26 that holds: while the stop control is available, invoking
\* it leaves no transcription worker running
StopEndsConversion == [][GUI_StopConversion => ~ConversionRunning']_vars

(***************************************************************************)
(* Progress of the insertion loop                                          *)
(***************************************************************************)
\* the progress values the insertion loop has emitted so far: those after
\* the 0, 3, 8 and 10 of the preparation
LoopProgress ==
    LET all == ProgressValues(kw_signals)
    IN  SubSeq(all, 5, Len(all))

\* C31: in a classification run over total >= 1 resolved entries, after each
\* resolved entry has been processed, whether its insertion succeeded, raised
\* or its handler was missing, the value 10 + floor(completed * 90 / total) is
\* emitted.
C31_ProgressPerEntry ==
    kw_pc = "loop" =>
        LoopProgress = [k \in 1..kw_idx |-> 10 + (k * 90) \div Len(kw_filtered)]

\* the entries processed so far whose insertion handler exists
InvokedPositions ==
    SelectSeq([k \in 1..kw_idx |-> k],
              LAMBDA k : ConfigAt(kw_filtered[k]).insert_method \notin kw_missing)

\* what the loop does emit: one value per entry whose handler exists
ProgressPerInvokedEntry ==
    kw_pc = "loop" =>
        LoopProgress = [j \in 1..Len(InvokedPositions) |->
                           ClassificationProgress(InvokedPositions[j], Len(kw_filtered))]

(***************************************************************************)
(* Terminal signals of the three workers                                   *)
(***************************************************************************)
TerminalSignals == {"completed", "failed"}

\* the positions of the terminal signals in a run's signals
TerminalPositions(sigs) == {k \in DOMAIN sigs : sigs[k].sig \in TerminalSignals}

\* a run that has returned emitted one terminal signal, as its last signal,
\* and a run still under way has emitted none
OneTerminalSignal(pc, sigs) ==
    /\ pc \in {"done", "failed"} => TerminalPositions(sigs) = {Len(sigs)}
    /\ pc = "done" => sigs[Len(sigs)].sig = "completed"
    /\ pc = "failed" => sigs[Len(sigs)].sig = "failed"
    /\ pc \notin {"done", "failed"} => TerminalPositions(sigs) = {}

\* C32: every run of a stage worker that is not terminated by the caller
\* emits exactly one terminal signal, completion or failure, never both and
\* never the same one twice, and emits no progress, status or partial-result
\* signal after it.
C32_OneTerminalSignal ==
    /\ OneTerminalSignal(cw_pc, cw_signals)
    /\ OneTerminalSignal(sw_pc, sw_signals)
    /\ OneTerminalSignal(kw_pc, kw_signals)

\* a run of one of the three workers has returned after its loop handled an
\* entry or a chunk
C32_Witness ==
    \/ cw_pc \in {"done", "failed"} /\ engine_calls # <<>>
    \/ sw_pc = "done" /\ sw_raises > 0
    \/ kw_pc = "done" /\ kw_raises > 0

(***************************************************************************)
(* The classify and extract controls of the window                         *)
(***************************************************************************)
\* the results panel holds the transcript of the conversion worker, whole or
\* as far as it has been streamed
PanelHoldsTranscript ==
    /\ Strip(TranscriptSoFar) # <<>>
    /\ results_text = TranscriptSoFar

\* C33: the classify control is never enabled while a transcription run is
\* in flight nor while the results panel holds a transcript that has not been
\* through extraction.
C33_ClassifyAfterExtraction ==
    classification_button => ~ConversionRunning /\ ~PanelHoldsTranscript

\* the part of C33 the handlers of the conversion do ensure: a start of a
\* transcription, its completion and a clearing of the results leave the
\* classify control disabled
ConversionDisablesClassify ==
    [][GUI_StartConversion \/ GUI_OnConversionCompleted \/ GUI_ClearResults
          => ~classification_button']_vars

\* C34: after an extraction run completes and its completion signal has been
\* handled, the extract control is enabled again, for every timing between
\* the worker thread's exit and the handling of its completion signal;
\* likewise after a transcription completes with a non-empty transcript the
\* extract and save controls are enabled.
C34_ExtractEnabledAgain ==
    [][/\ GUI_OnSummarizationCompleted => summarize_button'
       /\ GUI_OnConversionCompleted /\ Strip(results_text') # <<>>
              => summarize_button' /\ save_button']_vars

\* the part of C34 that holds: when no extraction thread is running at the
\* time the completion signal is handled, the controls are enabled
ExtractEnabledAfterExit ==
    [][/\ GUI_OnSummarizationCompleted /\ ~SummarizationRunning
              => summarize_button' /\ save_button'
       /\ GUI_OnConversionCompleted /\ Strip(results_text') # <<>>
              => save_button' /\ (~SummarizationRunning => summarize_button')]_vars

(***************************************************************************)
(* The plan entry's own handler                                            *)
(***************************************************************************)
\* the calls of run_sheet_plan made in the run so far
PlanCalls == SelectSeq(sw_calls, LAMBDA c : c.method = PLAN)

\* C35: in an extraction run in which the proposed-plan handler is available
\* the plan entry's own handler, run_sheet_plan, is never invoked, whatever
\* the selection and whatever the proposed-plan handler returns or raises; it
\* is invoked only as a fallback when the proposed-plan handler is missing.
C35_PlanHandlerOnlyAsFallback ==
    /\ PROPOSED \notin sw_missing => PlanCalls = <<>>
    /\ \A k \in DOMAIN PlanCalls :
         /\ PROPOSED \in sw_missing
         /\ PlanCalls[k].entry = EntryOf(PLAN)

\* a finished run whose plan entry was processed with the proposed-plan
\* handler available and raising on its behalf
C35_Witness ==
    /\ sw_pc = "done"
    /\ Processed(PLAN)
    /\ PROPOSED \notin sw_missing
    /\ \E k \in DOMAIN ProposedCalls :
         /\ ProposedCalls[k].entry = EntryOf(PLAN)
         /\ ~ProposedCalls[k].ok

\* the fallback does occur: a finished run that called run_sheet_plan
PlanFallbackCalled == sw_pc = "done" /\ PlanCalls # <<>>

(***************************************************************************)
(* Several blocks with the same catalog key                                *)
(***************************************************************************)
\* the key a piece of the text between separator lines is headed by
\* (the empty text: the piece has no line that is not blank)
BlockKey(block) ==
    LET lines == BlockLines(block)
    IN  IF lines = <<>> THEN <<>> ELSE HeaderKey(lines[1])

\* the payload a piece decodes to
BlockPayload(block) == ParsedData(BlockContent(BlockLines(block)))

\* position b holds the last block headed by its key
LastOfItsKey(keys, b) == \A o \in DOMAIN keys : o > b => keys[o] # keys[b]

\* C36: when a section blob contains several blocks with the same catalog
\* key, decode keeps exactly one payload for that key, that of the last such
\* block in the text; the earlier blocks with that key have no effect on the
\* decoded mapping or on the payload passed to the insertion handler.
C36_LastBlockWins ==
    kw_pc \in {"loop", "done"} =>
        LET blocks == Split(kw_text, Separator)
            keys == [b \in DOMAIN blocks |-> BlockKey(blocks[b])]
            keyed == {b \in DOMAIN blocks : keys[b] \in SUMMARY_KEY_SET}
        IN  /\ DOMAIN extracted_texts = {keys[b] : b \in keyed}
            /\ \A b \in keyed :
                 LastOfItsKey(keys, b) =>
                     extracted_texts[keys[b]] = BlockPayload(blocks[b])
            /\ \A k \in 1..kw_idx :
                 KwKey(k) \in DOMAIN extracted_texts =>
                     \A j \in DOMAIN InsertCallsOf(k) :
                         InsertCallsOf(k)[j].payload =
                             HandedOver(extracted_texts[KwKey(k)])

\* a finished run over a text with two blocks of one key and different
\* payloads, whose insertion handler was called
C36_Witness ==
    /\ kw_pc = "done"
    /\ LET blocks == Split(kw_text, Separator)
       IN  \E k \in 1..kw_idx :
             /\ InsertCallsOf(k) # <<>>
             /\ \E b, o \in DOMAIN blocks :
                  /\ b < o
                  /\ BlockKey(blocks[b]) = KwKey(k)
                  /\ BlockKey(blocks[o]) = KwKey(k)
                  /\ BlockPayload(blocks[b]) # BlockPayload(blocks[o])

(***************************************************************************)
(* The language code of a conversion worker                                *)
(***************************************************************************)
HasHyphen(code) == \E i \in DOMAIN code : code[i] = HYPHEN

\* the part of a code before its first hyphen
PrimarySubtag(code) ==
    LET first == CHOOSE i \in DOMAIN code :
                     code[i] = HYPHEN /\ \A j \in 1..(i - 1) : code[j] # HYPHEN
    IN  SubSeq(code, 1, first - 1)

\* C37: language normalization returns the primary subtag of the code, the
\* part before the first hyphen, returns a code that has no hyphen unchanged,
\* and is idempotent.
C37_PrimarySubtag ==
    lc_pc = "constructed" =>
        /\ HasHyphen(lang_code) => language = PrimarySubtag(lang_code)
        /\ ~HasHyphen(lang_code) => language = lang_code
        /\ ConvertLanguageCode(language) = language

\* a worker constructed with a code of two hyphens
C37_Witness ==
    /\ lc_pc = "constructed"
    /\ lang_code = <<"j", HYPHEN, "J", HYPHEN>>
    /\ language = <<"j">>

====
